---- MODULE Spec2Model ----
(***************************************************************************)
(* A model of the cherry front end: the lexical state and rules, the       *)
(* rule-dispatching lexical analyzer, the recursive-descent parsers for    *)
(* paths, types and imports, and the LL(1) FIRST/FOLLOW engine.            *)
(*                                                                         *)
(* Source text is a sequence of one-character strings; indices into it are *)
(* 0-based as in the C++ code (code[i] is the TLA+ element i + 1).         *)
(***************************************************************************)
EXTENDS Integers, Sequences, FiniteSets, TLC

(***************************************************************************)
(* Characters                                                              *)
(***************************************************************************)

\* The terminating zero byte of std::string, read at index = length.
NUL == "NUL"

\* The value of a read outside [0, length]: undefined behaviour in C++.
OOB == "OOB"

\* ASCII codes of the characters the model uses.
Ord ==
    "\t" :> 9 @@ "\n" :> 10 @@ "\f" :> 12 @@ "\r" :> 13 @@ " " :> 32 @@
    "!" :> 33 @@ "\"" :> 34 @@ "#" :> 35 @@ "$" :> 36 @@ "%" :> 37 @@
    "&" :> 38 @@ "'" :> 39 @@ "(" :> 40 @@ ")" :> 41 @@ "*" :> 42 @@
    "+" :> 43 @@ "," :> 44 @@ "-" :> 45 @@ "." :> 46 @@ "/" :> 47 @@
    "0" :> 48 @@ "1" :> 49 @@ "2" :> 50 @@ "3" :> 51 @@ "4" :> 52 @@
    "5" :> 53 @@ "6" :> 54 @@ "7" :> 55 @@ "8" :> 56 @@ "9" :> 57 @@
    ":" :> 58 @@ ";" :> 59 @@ "<" :> 60 @@ "=" :> 61 @@ ">" :> 62 @@
    "?" :> 63 @@ "@" :> 64 @@ "A" :> 65 @@ "B" :> 66 @@ "C" :> 67 @@
    "D" :> 68 @@ "E" :> 69 @@ "F" :> 70 @@ "G" :> 71 @@ "H" :> 72 @@
    "I" :> 73 @@ "J" :> 74 @@ "K" :> 75 @@ "L" :> 76 @@ "M" :> 77 @@
    "N" :> 78 @@ "O" :> 79 @@ "P" :> 80 @@ "Q" :> 81 @@ "R" :> 82 @@
    "S" :> 83 @@ "T" :> 84 @@ "U" :> 85 @@ "V" :> 86 @@ "W" :> 87 @@
    "X" :> 88 @@ "Y" :> 89 @@ "Z" :> 90 @@ "[" :> 91 @@ "\\" :> 92 @@
    "]" :> 93 @@ "^" :> 94 @@ "_" :> 95 @@ "a" :> 97 @@
    "b" :> 98 @@ "c" :> 99 @@ "d" :> 100 @@ "e" :> 101 @@ "f" :> 102 @@
    "g" :> 103 @@ "h" :> 104 @@ "i" :> 105 @@ "j" :> 106 @@ "k" :> 107 @@
    "l" :> 108 @@ "m" :> 109 @@ "n" :> 110 @@ "o" :> 111 @@ "p" :> 112 @@
    "q" :> 113 @@ "r" :> 114 @@ "s" :> 115 @@ "t" :> 116 @@ "u" :> 117 @@
    "v" :> 118 @@ "w" :> 119 @@ "x" :> 120 @@ "y" :> 121 @@ "z" :> 122 @@
    "{" :> 123 @@ "|" :> 124 @@ "}" :> 125 @@ "~" :> 126 @@ "NUL" :> 0

isdigit(ch) == ch \in DOMAIN Ord /\ Ord[ch] >= 48 /\ Ord[ch] <= 57

isalpha(ch) ==
    /\ ch \in DOMAIN Ord
    /\ \/ (Ord[ch] >= 65 /\ Ord[ch] <= 90)
       \/ (Ord[ch] >= 97 /\ Ord[ch] <= 122)

isalnum(ch) == isalpha(ch) \/ isdigit(ch)

isspace(ch) == ch \in {" ", "\t", "\n", "\f", "\r"}

(***************************************************************************)
(* lex::state and lex::token                                               *)
(***************************************************************************)

\* token{}: value-initialised, type 0 is leaf::unknown.
EmptyToken ==
    [lexeme |-> [ptr |-> 0, text |-> <<>>], type |-> "unknown",
     line |-> 0, column |-> 0]

\* A freshly constructed lex::state holding the given source.
NewLexState(src) ==
    [code |-> src, line |-> 0, column |-> 0, index |-> 0,
     token_line |-> 0, token_column |-> 0, lexeme_start |-> 0]

CharAt(s, i) ==
    IF i >= 0 /\ i < Len(s.code) THEN s.code[i + 1]
    ELSE IF i = Len(s.code) THEN NUL
    ELSE OOB

end_of_source(s) == s.index = Len(s.code)

next_src_char(s) == CharAt(s, s.index + 1)

curr_src_char(s) == CharAt(s, s.index)

prev_src_char(s) == CharAt(s, s.index - 1)

\* A read_src_char that advances the column over a newline instead of
\* starting a new line.
read_src_char_no_newline(s) ==
    IF s.index = Len(s.code) THEN s
    ELSE [s EXCEPT !.index = @ + 1, !.column = @ + 1]

\* The state after read_src_char(); the value it returns is curr_src_char
\* of the state before the call (the zero byte at the end of the source).
read_src_char(s) ==
    IF s.index = Len(s.code) THEN s
    ELSE IF s.code[s.index + 1] = "\n"
         THEN [s EXCEPT !.index = @ + 1, !.line = @ + 1, !.column = 0]
         ELSE [s EXCEPT !.index = @ + 1, !.column = @ + 1]

remaining_source(s) == SubSeq(s.code, s.index + 1, Len(s.code))

start_token(s) ==
    [s EXCEPT !.token_line = s.line, !.token_column = s.column,
              !.lexeme_start = s.index]

extract_lexeme(s) ==
    [ptr |-> s.lexeme_start,
     text |-> SubSeq(s.code, s.lexeme_start + 1, s.index)]

extract_token(s, type) ==
    [lexeme |-> extract_lexeme(s), type |-> type,
     line |-> s.token_line, column |-> s.token_column]

\* lex::result = expected<token, errc>, paired with the state the rule left.
Ok(s, type) ==
    [st |-> s, has_value |-> TRUE, value |-> extract_token(s, type),
     error |-> "success"]

Unexpected(s, errc) ==
    [st |-> s, has_value |-> FALSE, value |-> EmptyToken, error |-> errc]

\* strview_t::operator[] and starts_with on the remaining source.  Index
\* size() of the view is the source's terminating zero byte.
view_at(src, i) == IF i < Len(src) THEN src[i + 1] ELSE NUL

starts_with(src, prefix) ==
    /\ Len(src) >= Len(prefix)
    /\ SubSeq(src, 1, Len(prefix)) = prefix

\* while (!ctx.end_of_source() && pred(ctx.curr_src_char())) read_src_char();
RECURSIVE read_while(_, _)
read_while(s, set) ==
    IF ~end_of_source(s) /\ curr_src_char(s) \in set
    THEN read_while(read_src_char(s), set)
    ELSE s

\* The same loop with the test negated: read while the character is not in set.
RECURSIVE read_until(_, _)
read_until(s, set) ==
    IF ~end_of_source(s) /\ curr_src_char(s) \notin set
    THEN read_until(read_src_char(s), set)
    ELSE s

(***************************************************************************)
(* Lexical rules                                                           *)
(***************************************************************************)

comment_litmus(src) == starts_with(src, <<"#">>)

comment_tokenize(s) ==
    LET s1 == read_src_char(start_token(s))
        s2 == read_until(s1, {"\n"})
    IN  Ok(s2, "comment")

k_keyword_mapped_types ==
    <<"n","u","l","l">> :> "lv_null" @@
    <<"t","r","u","e">> :> "lv_true" @@
    <<"f","a","l","s","e">> :> "lv_false" @@
    <<"v","a","r">> :> "kw_var" @@
    <<"c","o","n","s","t">> :> "kw_const" @@
    <<"s","t","a","t","i","c">> :> "kw_static" @@
    <<"o","b","j","e","c","t">> :> "kw_object" @@
    <<"e","x","t","e","n","d">> :> "kw_extend" @@
    <<"d","e","f">> :> "kw_def" @@
    <<"a","l","i","a","s">> :> "kw_alias" @@
    <<"b","o","o","l">> :> "kw_bool" @@
    <<"c","h","a","r">> :> "kw_char" @@
    <<"i","n","t","8">> :> "kw_int8" @@
    <<"i","n","t","1","6">> :> "kw_int16" @@
    <<"i","n","t","3","2">> :> "kw_int32" @@
    <<"i","n","t","6","4">> :> "kw_int64" @@
    <<"u","i","n","t","8">> :> "kw_uint8" @@
    <<"u","i","n","t","1","6">> :> "kw_uint16" @@
    <<"u","i","n","t","3","2">> :> "kw_uint32" @@
    <<"u","i","n","t","6","4">> :> "kw_uint64" @@
    <<"s","i","n","g","l","e">> :> "kw_single" @@
    <<"d","o","u","b","l","e">> :> "kw_double" @@
    <<"s","t","r","i","n","g">> :> "kw_string" @@
    <<"v","o","i","d">> :> "kw_void" @@
    <<"u","s","i","n","g">> :> "kw_using" @@
    <<"m","o","d","u","l","e">> :> "kw_module" @@
    <<"e","x","t","e","r","n">> :> "kw_extern" @@
    <<"i","f">> :> "cf_if" @@
    <<"e","l","s","e">> :> "cf_else" @@
    <<"f","o","r">> :> "cf_for" @@
    <<"d","o">> :> "cf_do" @@
    <<"w","h","i","l","e">> :> "cf_while" @@
    <<"m","a","t","c","h">> :> "cf_match" @@
    <<"n","e","x","t">> :> "cf_next" @@
    <<"b","r","e","a","k">> :> "cf_break" @@
    <<"a","s">> :> "cf_as" @@
    <<"i","s">> :> "cf_is" @@
    <<"r","e","t","u","r","n">> :> "cf_return"

\* An is_keyword_char that accepts letters only.
is_keyword_char_letters_only(ch) == isalpha(ch)

is_keyword_char(ch) == isalnum(ch) \/ ch = "_"

get_token_type(lexeme) ==
    IF lexeme \in DOMAIN k_keyword_mapped_types
    THEN k_keyword_mapped_types[lexeme]
    ELSE "identifier"

keyword_litmus(src) == isalpha(view_at(src, 0)) \/ starts_with(src, <<"_">>)

RECURSIVE keyword_loop(_)
keyword_loop(s) ==
    IF ~end_of_source(s) /\ is_keyword_char(curr_src_char(s))
    THEN keyword_loop(read_src_char(s))
    ELSE s

keyword_tokenize(s) ==
    LET s1 == read_src_char(start_token(s))
        s2 == keyword_loop(s1)
        tkn == extract_token(s2, "unknown")
    IN  [st |-> s2, has_value |-> TRUE,
         value |-> [tkn EXCEPT !.type = get_token_type(tkn.lexeme.text)],
         error |-> "success"]

is_binary(ch) == ch = "0" \/ ch = "1"

binary_litmus(src) == starts_with(src, <<"0", "b">>)

\* while (!ctx.end_of_source() && is_binary(ctx.read_src_char())) continue;
\* the character is read before it is tested.
RECURSIVE binary_loop(_)
binary_loop(s) ==
    IF end_of_source(s) THEN s
    ELSE IF is_binary(curr_src_char(s))
         THEN binary_loop(read_src_char(s))
         ELSE read_src_char(s)

binary_tokenize(s) ==
    LET s1 == read_src_char(read_src_char(start_token(s)))
    IN  IF end_of_source(s1) \/ ~is_binary(next_src_char(s1))
        THEN Unexpected(s1, "invalid_binary")
        ELSE Ok(binary_loop(s1), "lv_signed")

\* ch >= '0' || ch <= '7'
is_octal(ch) == Ord[ch] >= 48 \/ Ord[ch] <= 55

octal_litmus(src) ==
    /\ starts_with(src, <<"0">>)
    /\ Len(src) > 1
    /\ is_octal(src[2])

RECURSIVE octal_loop(_)
octal_loop(s) ==
    IF end_of_source(s) THEN s
    ELSE IF is_octal(curr_src_char(s))
         THEN octal_loop(read_src_char(s))
         ELSE read_src_char(s)

octal_tokenize(s) ==
    LET s1 == read_src_char(start_token(s))
    IN  IF end_of_source(s1) \/ ~is_octal(curr_src_char(s1))
        THEN Unexpected(s1, "invalid_octal")
        ELSE Ok(octal_loop(s1), "lv_signed")

decimal_litmus(src) ==
    IF ~isdigit(view_at(src, 0)) THEN FALSE
    ELSE IF src[1] = "0" /\ Len(src) > 1
         THEN src[2] # "b" /\ src[2] # "x" /\ ~isdigit(src[2])
         ELSE TRUE

RECURSIVE decimal_digits(_)
decimal_digits(s) ==
    IF ~end_of_source(s) /\ isdigit(curr_src_char(s))
    THEN decimal_digits(read_src_char(s))
    ELSE s

\* decimal_rule::tokenize taking a period after the digits whatever follows.
decimal_tokenize_past_point(s) ==
    LET s1 == decimal_digits(read_src_char(start_token(s)))
    IN  IF curr_src_char(s1) # "."
        THEN Ok(s1, "lv_signed")
        ELSE Ok(decimal_digits(read_src_char(s1)), "lv_decimal")

decimal_tokenize(s) ==
    LET s1 == decimal_digits(read_src_char(start_token(s)))
    IN  IF curr_src_char(s1) # "."
        THEN Ok(s1, "lv_signed")
        ELSE IF ~isdigit(next_src_char(s1))
        THEN Ok(s1, "lv_signed")
        ELSE Ok(decimal_digits(read_src_char(s1)), "lv_decimal")

\* ch >= 'A' || ch <= 'F'
is_upper_digit(ch) == Ord[ch] >= 65 \/ Ord[ch] <= 70

\* ch >= 'a' || ch <= 'f'
is_lower_digit(ch) == Ord[ch] >= 97 \/ Ord[ch] <= 102

is_hexadecimal(ch) == isdigit(ch) \/ is_upper_digit(ch) \/ is_lower_digit(ch)

hexadecimal_litmus(src) == starts_with(src, <<"0", "x">>)

RECURSIVE hexadecimal_loop(_)
hexadecimal_loop(s) ==
    IF end_of_source(s) THEN s
    ELSE IF is_hexadecimal(curr_src_char(s))
         THEN hexadecimal_loop(read_src_char(s))
         ELSE read_src_char(s)

hexadecimal_tokenize(s) ==
    LET s1 == read_src_char(read_src_char(start_token(s)))
    IN  IF end_of_source(s1) \/ ~is_hexadecimal(curr_src_char(s1))
        THEN Unexpected(s1, "invalid_hexadecimal")
        ELSE Ok(hexadecimal_loop(s1), "lv_signed")

\* character_rule: the three helpers share hexadecimal_rule's bodies.
character_is_hexadecimal(ch) ==
    isdigit(ch) \/ is_upper_digit(ch) \/ is_lower_digit(ch)

character_litmus(src) == starts_with(src, <<"'">>)

\* for (index = 0; index < 5; index++): read one character; a quote ends
\* the literal, otherwise the character now under the cursor is tested.
RECURSIVE unicode_loop(_, _)
unicode_loop(s, index) ==
    IF index >= 5 THEN Unexpected(s, "invalid_unicode")
    ELSE LET ch == curr_src_char(s)
             s1 == read_src_char(s)
         IN  IF ch = "'" THEN Ok(s1, "lv_character")
             ELSE IF ~character_is_hexadecimal(curr_src_char(s1))
             THEN Unexpected(s1, "invalid_unicode")
             ELSE unicode_loop(s1, index + 1)

tokenize_unicode(s) ==
    LET s1 == read_src_char(s)
    IN  IF curr_src_char(s1) = "'"
        THEN Unexpected(s1, "invalid_unicode")
        ELSE unicode_loop(s1, 0)

character_tail(s) ==
    LET s1 == read_src_char(s)
        s2 == read_src_char(s1)
    IN  IF curr_src_char(s1) # "'"
        THEN Unexpected(s2, "invalid_character")
        ELSE Ok(s2, "lv_character")

character_tokenize(s) ==
    LET s1 == read_src_char(start_token(s))
    IN  IF curr_src_char(s1) = "\\"
        THEN LET s2 == read_src_char(s1)
             IN  IF curr_src_char(s2) = "u" THEN tokenize_unicode(s2)
                 ELSE IF curr_src_char(s2) = "'"
                 THEN Unexpected(s2, "invalid_character")
                 ELSE character_tail(s2)
        ELSE character_tail(s1)

string_litmus(src) ==
    \/ starts_with(src, <<"r", "\"", "\"", "\"">>)
    \/ starts_with(src, <<"\"">>)

\* handle_opener and handle_closure: read up to four consecutive quotes.
RECURSIVE read_quotes(_, _)
read_quotes(s, count) ==
    IF curr_src_char(s) = "\"" /\ count < 4
    THEN read_quotes(read_src_char(s), count + 1)
    ELSE [st |-> s, count |-> count]

handle_opener(s) ==
    LET r == read_quotes(s, 0)
    IN  [st |-> r.st, mode |-> IF r.count = 3 THEN "ml" ELSE "lv"]

handle_closure(s) ==
    LET r == read_quotes(s, 0)
    IN  [st |-> r.st, closed |-> r.count = 3]

\* handle_interpolation promoting on every brace, escaped or not.
handle_interpolation_ignoring_escape(s, type) ==
    [st |-> read_src_char(s),
     type |-> IF curr_src_char(s) = "{"
              THEN CASE type = "lv_raw_string" -> "lv_int_string"
                     [] type = "lv_ml_string" -> "lv_mli_string"
                     [] OTHER -> type
              ELSE type]

handle_interpolation(s, type) ==
    [st |-> read_src_char(s),
     type |-> IF curr_src_char(s) = "{" /\ prev_src_char(s) # "\\"
              THEN CASE type = "lv_raw_string" -> "lv_int_string"
                     [] type = "lv_ml_string" -> "lv_mli_string"
                     [] OTHER -> type
              ELSE type]

\* The body loops of analyze_literal (stops = newline and quote) and of
\* analyze_multiline / analyze_raw (stops = quote).
RECURSIVE string_body(_, _, _)
string_body(s, type, stops) ==
    IF ~end_of_source(s) /\ curr_src_char(s) \notin stops
    THEN LET r == handle_interpolation(s, type)
         IN  string_body(r.st, r.type, stops)
    ELSE [st |-> s, type |-> type]

analyze_literal(s, type) ==
    LET r == string_body(s, type, {"\n", "\""})
    IN  IF end_of_source(r.st) \/ curr_src_char(r.st) = "\n"
        THEN Unexpected(r.st, "invalid_raw_string")
        ELSE Ok(read_src_char(r.st), r.type)

analyze_multiline(s, type) ==
    LET r == string_body(s, "lv_ml_string", {"\""})
        c == handle_closure(r.st)
    IN  IF end_of_source(r.st) THEN Unexpected(r.st, "invalid_ml_string")
        ELSE IF ~c.closed THEN Unexpected(c.st, "invalid_ml_string")
        ELSE Ok(c.st, r.type)

analyze_raw(s, type) ==
    LET r == string_body(s, type, {"\""})
        c == handle_closure(r.st)
    IN  IF end_of_source(r.st) THEN Unexpected(r.st, "invalid_raw_string")
        ELSE IF ~c.closed THEN Unexpected(c.st, "invalid_raw_string")
        ELSE Ok(c.st, r.type)

string_tokenize(s) ==
    LET index == s.index
        s1 == start_token(s)
    IN  IF curr_src_char(s1) = "r"
        THEN analyze_raw(handle_opener(read_src_char(s1)).st, "lv_raw_string")
        ELSE LET o == handle_opener(s1)
             IN  IF o.st.index - index = 2
                 THEN Ok(o.st, "lv_raw_string")
                 ELSE IF o.mode = "ml"
                 THEN analyze_multiline(o.st, "lv_raw_string")
                 ELSE analyze_literal(o.st, "lv_raw_string")

k_known_ops ==
    {"+", "-", "*", "/", "%", "=", ".", "?", "~", "&", "|", "^",
     "<", ">", "!", "(", ")", "{", "}", "[", "]", ",", ";", ":"}

operator_litmus(src) == view_at(src, 0) \in k_known_ops

tokenize_equals(s, type) ==
    IF curr_src_char(s) # "="
    THEN Ok(s, type)
    ELSE LET s1 == read_src_char(s)
         IN  CASE type = "op_add" -> Ok(s1, "op_add_eq")
               [] type = "op_sub" -> Ok(s1, "op_sub_eq")
               [] type = "op_mul" -> Ok(s1, "op_mul_eq")
               [] type = "op_div" -> Ok(s1, "op_div_eq")
               [] type = "op_mod" -> Ok(s1, "op_mod_eq")
               [] type = "op_assign" -> Ok(s1, "op_logequals")
               [] type = "op_bitnot" -> Ok(s1, "op_bitnot_eq")
               [] type = "op_bitand" -> Ok(s1, "op_bitand_eq")
               [] type = "op_bitor" -> Ok(s1, "op_bitor_eq")
               [] type = "op_bitxor" -> Ok(s1, "op_bitxor_eq")
               [] type = "op_bitlsh" -> Ok(s1, "op_bitlsh_eq")
               [] type = "op_bitrsh" -> Ok(s1, "op_bitrsh_eq")
               [] type = "op_lognot" -> Ok(s1, "op_lognot_eq")
               [] type = "op_logand" -> Ok(s1, "op_logand_eq")
               [] type = "op_logor" -> Ok(s1, "op_logor_eq")
               [] type = "op_logless" -> Ok(s1, "op_logless_eq")
               [] type = "op_logmore" -> Ok(s1, "op_logmore_eq")
               [] OTHER -> Ok(s1, "unknown")

tokenize_triple(s, type) ==
    IF prev_src_char(s) # curr_src_char(s)
    THEN Ok(s, type)
    ELSE Ok(read_src_char(s), "op_ellipsis")

tokenize_double(s, type) ==
    IF prev_src_char(s) # curr_src_char(s)
    THEN tokenize_equals(s, type)
    ELSE LET s1 == read_src_char(s)
         IN  CASE type = "op_add" -> Ok(s1, "op_inc")
               [] type = "op_sub" -> Ok(s1, "op_dec")
               [] type = "op_access" -> tokenize_triple(s1, "op_cascade")
               [] type = "op_bitand" -> tokenize_equals(s1, "op_logand")
               [] type = "op_bitor" -> tokenize_equals(s1, "op_logor")
               [] type = "op_logless" -> tokenize_equals(s1, "op_bitlsh")
               [] type = "op_logmore" -> tokenize_equals(s1, "op_bitrsh")
               [] OTHER -> Ok(s1, "unknown")

tokenize_single(s) ==
    LET s0 == start_token(s)
        ch == curr_src_char(s0)
        s1 == read_src_char(s0)
    IN  CASE ch = "+" -> tokenize_double(s1, "op_add")
          [] ch = "-" -> tokenize_double(s1, "op_sub")
          [] ch = "&" -> tokenize_double(s1, "op_bitand")
          [] ch = "|" -> tokenize_double(s1, "op_bitor")
          [] ch = "<" -> tokenize_double(s1, "op_logless")
          [] ch = ">" -> tokenize_double(s1, "op_logmore")
          [] ch = "." -> tokenize_double(s1, "op_access")
          [] ch = "*" -> tokenize_equals(s1, "op_mul")
          [] ch = "/" -> tokenize_equals(s1, "op_div")
          [] ch = "%" -> tokenize_equals(s1, "op_mod")
          [] ch = "=" -> tokenize_equals(s1, "op_assign")
          [] ch = "~" -> tokenize_equals(s1, "op_bitnot")
          [] ch = "^" -> tokenize_equals(s1, "op_bitxor")
          [] ch = "!" -> tokenize_equals(s1, "op_lognot")
          [] ch = "?" -> Ok(s1, "op_ternary")
          [] ch = "(" -> Ok(s1, "dc_lparen")
          [] ch = ")" -> Ok(s1, "dc_rparen")
          [] ch = "{" -> Ok(s1, "dc_lbrace")
          [] ch = "}" -> Ok(s1, "dc_rbrace")
          [] ch = "[" -> Ok(s1, "dc_lbracket")
          [] ch = "]" -> Ok(s1, "dc_rbracket")
          [] ch = "," -> Ok(s1, "dc_comma")
          [] ch = ";" -> Ok(s1, "dc_terminator")
          [] ch = ":" -> Ok(s1, "dc_colon")
          [] OTHER -> Ok(s1, "unknown")

operator_tokenize(s) == tokenize_single(s)

(***************************************************************************)
(* lexical_analyzer<Rules...>                                              *)
(***************************************************************************)

\* using lexer = lexical_analyzer<comment_rule, keyword_rule, ...>
lexer ==
    <<"comment", "keyword", "binary", "octal", "decimal", "hexadecimal",
      "character", "string", "operator">>

litmus(rule, src) ==
    CASE rule = "comment" -> comment_litmus(src)
      [] rule = "keyword" -> keyword_litmus(src)
      [] rule = "binary" -> binary_litmus(src)
      [] rule = "octal" -> octal_litmus(src)
      [] rule = "decimal" -> decimal_litmus(src)
      [] rule = "hexadecimal" -> hexadecimal_litmus(src)
      [] rule = "character" -> character_litmus(src)
      [] rule = "string" -> string_litmus(src)
      [] rule = "operator" -> operator_litmus(src)

tokenize(rule, s) ==
    CASE rule = "comment" -> comment_tokenize(s)
      [] rule = "keyword" -> keyword_tokenize(s)
      [] rule = "binary" -> binary_tokenize(s)
      [] rule = "octal" -> octal_tokenize(s)
      [] rule = "decimal" -> decimal_tokenize(s)
      [] rule = "hexadecimal" -> hexadecimal_tokenize(s)
      [] rule = "character" -> character_tokenize(s)
      [] rule = "string" -> string_tokenize(s)
      [] rule = "operator" -> operator_tokenize(s)

\* The positions of the source that the indexed reads of a rule's litmus
\* touch, the view starting at s.index: source[0], and source[1] behind the
\* size test of the octal and decimal rules.
litmus_reads(rule, s) ==
    LET src == remaining_source(s)
    IN  CASE rule = "keyword" -> {s.index}
          [] rule = "operator" -> {s.index}
          [] rule = "octal" ->
                IF starts_with(src, <<"0">>) /\ Len(src) > 1
                THEN {s.index + 1} ELSE {}
          [] rule = "decimal" ->
                IF ~isdigit(view_at(src, 0)) THEN {s.index}
                ELSE IF src[1] = "0" /\ Len(src) > 1
                THEN {s.index, s.index + 1}
                ELSE {s.index}
          [] OTHER -> {}

\* binary_rule::tokenize evaluating next_src_char() without the
\* end_of_source() test in front of it.
binary_peeks_unguarded(s) ==
    {read_src_char(read_src_char(start_token(s))).index + 1}

\* The position binary_rule::tokenize reads with next_src_char().
binary_peeks(s) ==
    LET s1 == read_src_char(read_src_char(start_token(s)))
    IN  IF end_of_source(s1) THEN {} ELSE {s1.index + 1}

\* The position decimal_rule::tokenize reads with next_src_char().
decimal_peeks(s) ==
    LET s1 == decimal_digits(read_src_char(start_token(s)))
    IN  IF curr_src_char(s1) # "." THEN {} ELSE {s1.index + 1}

\* The positions handle_interpolation reads with prev_src_char() in a body
\* loop: one for every brace the loop stands on.
RECURSIVE string_body_peeks(_, _)
string_body_peeks(s, stops) ==
    IF ~end_of_source(s) /\ curr_src_char(s) \notin stops
    THEN (IF curr_src_char(s) = "{" THEN {s.index - 1} ELSE {})
             \cup string_body_peeks(read_src_char(s), stops)
    ELSE {}

string_peeks(s) ==
    LET index == s.index
        s1 == start_token(s)
    IN  IF curr_src_char(s1) = "r"
        THEN string_body_peeks(handle_opener(read_src_char(s1)).st, {"\""})
        ELSE LET o == handle_opener(s1)
             IN  IF o.st.index - index = 2 THEN {}
                 ELSE IF o.mode = "ml"
                 THEN string_body_peeks(o.st, {"\""})
                 ELSE string_body_peeks(o.st, {"\n", "\""})

\* The positions tokenize_double and tokenize_triple read with
\* prev_src_char().
operator_peeks(s) ==
    LET s0 == start_token(s)
        ch == curr_src_char(s0)
        s1 == read_src_char(s0)
    IN  IF ch \notin {"+", "-", "&", "|", "<", ">", "."} THEN {}
        ELSE IF prev_src_char(s1) # curr_src_char(s1) THEN {s1.index - 1}
        ELSE IF ch = "." THEN {s1.index - 1, read_src_char(s1).index - 1}
        ELSE {s1.index - 1}

\* The positions a rule's tokenize reads with next_src_char() and
\* prev_src_char().
tokenize_peeks(rule, s) ==
    CASE rule = "binary" -> binary_peeks(s)
      [] rule = "decimal" -> decimal_peeks(s)
      [] rule = "string" -> string_peeks(s)
      [] rule = "operator" -> operator_peeks(s)
      [] OTHER -> {}

\* The rules whose litmus evaluates source[0] without testing for an empty
\* view: undefined behaviour when the remaining source is empty.
IndexesEmptyView(rule) == rule \in {"keyword", "decimal", "operator"}

RECURSIVE skip_whitespace(_)
skip_whitespace(s) ==
    IF isspace(curr_src_char(s))
    THEN skip_whitespace(read_src_char(s))
    ELSE s

\* try_tokenize<Index>: the result of the rule that ran, together with the
\* rules whose litmus was evaluated (probed) and the rule whose tokenize ran
\* (ran, 0 when none).  In a build whose library checks view indices
\* (checked), source[0] on an empty view ends the process.
RECURSIVE try_tokenize(_, _, _, _, _)
try_tokenize(rules, s, Index, probed, checked) ==
    IF Index > Len(rules)
    THEN [res |-> Unexpected(s, "not_my_token"), probed |-> probed,
          ran |-> 0, aborted |-> FALSE]
    ELSE LET s1 == skip_whitespace(s)
             src == remaining_source(s1)
             rule == rules[Index]
             seen == Append(probed, Index)
         IN  IF checked /\ src = <<>> /\ IndexesEmptyView(rule)
             THEN [res |-> Unexpected(s1, "unrecoverable"), probed |-> seen,
                   ran |-> 0, aborted |-> TRUE]
             ELSE IF litmus(rule, src)
             THEN [res |-> tokenize(rule, s1), probed |-> seen,
                   ran |-> Index, aborted |-> FALSE]
             ELSE try_tokenize(rules, s1, Index + 1, seen, checked)

\* A dispatcher that starts probing at the second rule.
lexical_analyzer_tokenize_from_second(rules, s, checked) ==
    try_tokenize(rules, s, 2, <<>>, checked)

lexical_analyzer_tokenize(rules, s, checked) ==
    try_tokenize(rules, s, 1, <<>>, checked)

(***************************************************************************)
(* Syntactic analysis: syn::state and the recursive-descent parsers        *)
(***************************************************************************)

\* A freshly constructed syn::state over the given source.  lex_state and
\* current are the structure's fields; consumed (the tokens current has
\* moved past), last_errc (what the last next_token() returned) and aborted
\* (the process was terminated inside the lexer) are bookkeeping.
NewSynState(src) ==
    [lex_state |-> NewLexState(src), current |-> EmptyToken,
     consumed |-> <<>>, last_errc |-> "success", aborted |-> FALSE]

\* syn::state::next_token() assigning current whatever the lexer answered.
next_token_overwriting(c, chk) ==
    IF c.aborted THEN c
    ELSE LET r == lexical_analyzer_tokenize(lexer, c.lex_state, chk)
         IN  IF r.aborted
             THEN [c EXCEPT !.lex_state = r.res.st, !.aborted = TRUE]
             ELSE IF ~r.res.has_value
             THEN [c EXCEPT !.lex_state = r.res.st,
                            !.current = EmptyToken,
                            !.last_errc = r.res.error]
             ELSE [c EXCEPT !.lex_state = r.res.st,
                            !.current = r.res.value,
                            !.last_errc = "success",
                            !.consumed =
                                IF c.current = EmptyToken THEN @
                                ELSE Append(@, c.current.type)]

\* syn::state::next_token(): current changes only when the lexer succeeds.
next_token(c, chk) ==
    IF c.aborted THEN c
    ELSE LET r == lexical_analyzer_tokenize(lexer, c.lex_state, chk)
         IN  IF r.aborted
             THEN [c EXCEPT !.lex_state = r.res.st, !.aborted = TRUE]
             ELSE IF ~r.res.has_value
             THEN [c EXCEPT !.lex_state = r.res.st,
                            !.last_errc = r.res.error]
             ELSE [c EXCEPT !.lex_state = r.res.st,
                            !.current = r.res.value,
                            !.last_errc = "success",
                            !.consumed =
                                IF c.current = EmptyToken THEN @
                                ELSE Append(@, c.current.type)]

identifier(type) == type = "identifier"

primitive(type) ==
    type \in {"kw_bool", "kw_char", "kw_int8", "kw_int16", "kw_int32",
              "kw_int64", "kw_uint8", "kw_uint16", "kw_uint32", "kw_uint64",
              "kw_single", "kw_double", "kw_string", "kw_void"}

\* The switch of parse_primitive: keyword to ast::segment::primitive.
primitive_of(type) ==
    CASE type = "kw_bool" -> "p_bool"
      [] type = "kw_char" -> "p_char"
      [] type = "kw_int8" -> "p_int8"
      [] type = "kw_int16" -> "p_int16"
      [] type = "kw_int32" -> "p_int32"
      [] type = "kw_int64" -> "p_int64"
      [] type = "kw_uint8" -> "p_uint8"
      [] type = "kw_uint16" -> "p_uint16"
      [] type = "kw_uint32" -> "p_uint32"
      [] type = "kw_uint64" -> "p_uint64"
      [] type = "kw_single" -> "p_single"
      [] type = "kw_double" -> "p_double"
      [] type = "kw_string" -> "p_string"
      [] type = "kw_void" -> "p_void"
      [] OTHER -> "p_bool"

\* syn::result<T> = expected<T, syn::errc>.
SynOk(v) == [has_value |-> TRUE, value |-> v, error |-> "success"]

SynErr(e) == [has_value |-> FALSE, value |-> <<>>, error |-> e]

\* AST nodes.  A type carries the fields of all its variants; nullptr is
\* the null uptr_t<ast::type>.
PrimitiveSegment(val) ==
    [kind |-> "primitive", val |-> val, name |-> <<>>, inputs |-> <<>>]

GenericSegment(name) ==
    [kind |-> "generic", val |-> "none", name |-> name, inputs |-> <<>>]

TypeNode(variant) ==
    [variant |-> variant, segments |-> <<>>, inputs |-> <<>>,
     output |-> <<>>, depth |-> <<>>]

nullptr == [variant |-> "nullptr"]

\* One activation of a parser function: the function, the statement it
\* resumes at, the node it is building and (type parser) the parsed path.
Frame(fn) == [fn |-> fn, pc |-> "entry", node |-> <<>>, path |-> <<>>]

\* What one step of a parser function does: return r to the caller, call
\* another parser and resume at frame.pc, go on at frame.pc, or fault.
\* advance says that the step ends with a call of ctx.next_token(), made
\* before the callee starts or the result is handed back.
Return(r, advance) ==
    [act |-> "return", advance |-> advance, ret |-> r,
     frame |-> Frame("none"), callee |-> "none", iter |-> 0]

Call(f, callee, iter, advance) ==
    [act |-> "call", advance |-> advance, ret |-> SynErr("success"),
     frame |-> f, callee |-> callee, iter |-> iter]

Goto(f, iter, advance) ==
    [act |-> "goto", advance |-> advance, ret |-> SynErr("success"),
     frame |-> f, callee |-> "none", iter |-> iter]

Fault ==
    [act |-> "fault", advance |-> FALSE, ret |-> SynErr("success"),
     frame |-> Frame("none"), callee |-> "none", iter |-> 0]

\* simple_path_parser::parse without the test of the token that follows an
\* access operator: whatever follows becomes a segment.
simple_path_parser_parse_unchecked(c, f) ==
    IF f.pc = "entry"
    THEN IF c.current.type # "identifier"
         THEN Return(SynErr("not_my_syntax"), FALSE)
         ELSE Goto([f EXCEPT !.pc = "while",
                             !.node = [segments |->
                                          <<c.current.lexeme.text>>]],
                   0, TRUE)
    ELSE IF f.pc = "while"
    THEN IF c.current.type = "op_access"
         THEN Goto([f EXCEPT !.pc = "segment"], 1, TRUE)
         ELSE Return(SynOk(f.node), FALSE)
    ELSE Goto([f EXCEPT !.pc = "while",
                        !.node.segments =
                            Append(@, c.current.lexeme.text)],
              0, TRUE)

\* simple_path_parser::parse.
simple_path_parser_parse(c, f) ==
    IF f.pc = "entry"
    THEN IF c.current.type # "identifier"
         THEN Return(SynErr("not_my_syntax"), FALSE)
         ELSE Goto([f EXCEPT !.pc = "while",
                             !.node = [segments |->
                                          <<c.current.lexeme.text>>]],
                   0, TRUE)
    ELSE IF f.pc = "while"
    THEN IF c.current.type = "op_access"
         THEN Goto([f EXCEPT !.pc = "segment"], 1, TRUE)
         ELSE Return(SynOk(f.node), FALSE)
    ELSE \* in the loop, after the access operator
         IF c.current.type # "identifier"
         THEN Return(SynErr("expected_identifier"), FALSE)
         ELSE Goto([f EXCEPT !.pc = "while",
                             !.node.segments =
                                 Append(@, c.current.lexeme.text)],
                   0, TRUE)

\* import_parser::parse without the test for the terminator.
import_parser_parse_unterminated(c, f, r) ==
    IF f.pc = "entry"
    THEN IF c.current.type # "kw_using"
         THEN Return(SynErr("not_my_syntax"), FALSE)
         ELSE Call([f EXCEPT !.pc = "path"], "simple_path", 0, TRUE)
    ELSE IF ~r.has_value
         THEN Return(SynErr("failure"), FALSE)
         ELSE Return(SynOk([path |-> r.value]), TRUE)

\* import_parser::parse; r is the result of the simple path parser.
import_parser_parse(c, f, r) ==
    IF f.pc = "entry"
    THEN IF c.current.type # "kw_using"
         THEN Return(SynErr("not_my_syntax"), FALSE)
         ELSE Call([f EXCEPT !.pc = "path"], "simple_path", 0, TRUE)
    ELSE IF ~r.has_value
         THEN Return(SynErr("failure"), FALSE)
         ELSE IF c.current.type # "dc_terminator"
         THEN Return(SynErr("expected_terminator"), FALSE)
         ELSE Return(SynOk([path |-> r.value]), TRUE)

\* segment_parser::parse_primitive.
parse_primitive(c) ==
    Return(SynOk(PrimitiveSegment(primitive_of(c.current.type))), TRUE)

\* segment_parser::parse_generics; r is the result of the type parser.
parse_generics(c, f, r) ==
    IF f.pc = "entry"
    THEN Goto([f EXCEPT !.pc = "named",
                        !.node = GenericSegment(c.current.lexeme.text)],
              0, TRUE)
    ELSE IF f.pc = "named"
    THEN IF c.current.type # "op_logless"
         THEN Return(SynOk(f.node), FALSE)
         ELSE Call([f EXCEPT !.pc = "arg"], "type", 1, TRUE)
    ELSE IF ~r.has_value
         THEN Return(SynErr("failure"), FALSE)
         ELSE LET segm == [f.node EXCEPT !.inputs = Append(@, r.value)]
              IN  IF c.current.type # "op_logmore"
                  THEN Call([f EXCEPT !.node = segm], "type", 1, TRUE)
                  ELSE Return(SynOk(segm), FALSE)

\* segment_parser::parse.
segment_parser_parse(c, f, r) ==
    IF f.pc # "entry" \/ identifier(c.current.type)
    THEN parse_generics(c, f, r)
    ELSE IF primitive(c.current.type)
    THEN parse_primitive(c)
    ELSE Return(SynErr("not_my_syntax"), FALSE)

\* path_expr_parser::parse reading a token before it answers not_my_syntax.
path_expr_parser_parse_consuming(c, f, r) ==
    IF f.pc = "entry"
    THEN IF ~identifier(c.current.type) /\ ~primitive(c.current.type)
         THEN Return(SynErr("not_my_syntax"), TRUE)
         ELSE Call([f EXCEPT !.pc = "first",
                             !.node = [segments |-> <<>>]],
                   "segment", 0, FALSE)
    ELSE IF f.pc = "first" /\ ~r.has_value
    THEN IF r.error = "not_my_syntax"
         THEN Return(SynErr("not_my_syntax"), FALSE)
         ELSE Return(SynErr("failure"), FALSE)
    ELSE IF f.pc = "more" /\ ~r.has_value
    THEN Return(SynErr("failure"), FALSE)
    ELSE LET node == [f.node EXCEPT !.segments = Append(@, r.value)]
         IN  IF c.current.type = "op_access"
             THEN Call([f EXCEPT !.pc = "more", !.node = node],
                       "segment", 1, TRUE)
             ELSE Return(SynOk(node), FALSE)

\* path_expr_parser::parse; r is the result of the segment parser.
path_expr_parser_parse(c, f, r) ==
    IF f.pc = "entry"
    THEN IF ~identifier(c.current.type) /\ ~primitive(c.current.type)
         THEN Return(SynErr("not_my_syntax"), FALSE)
         ELSE Call([f EXCEPT !.pc = "first",
                             !.node = [segments |-> <<>>]],
                   "segment", 0, FALSE)
    ELSE IF f.pc = "first" /\ ~r.has_value
    THEN IF r.error = "not_my_syntax"
         THEN Return(SynErr("not_my_syntax"), FALSE)
         ELSE Return(SynErr("failure"), FALSE)
    ELSE IF f.pc = "more" /\ ~r.has_value
    THEN Return(SynErr("failure"), FALSE)
    ELSE LET node == [f.node EXCEPT !.segments = Append(@, r.value)]
         IN  IF c.current.type = "op_access"
             THEN Call([f EXCEPT !.pc = "more", !.node = node],
                       "segment", 1, TRUE)
             ELSE Return(SynOk(node), FALSE)

\* type_parser::parse_function; r is the result of the type parser.
parse_function(c, f, r) ==
    IF f.pc = "entry"
    THEN Goto([f EXCEPT !.pc = "while", !.node = TypeNode("fn")], 0, TRUE)
    ELSE IF f.pc = "while"
    THEN IF c.current.type # "dc_rparen"
         THEN Call([f EXCEPT !.pc = "param"], "type", 1, FALSE)
         ELSE Goto([f EXCEPT !.pc = "flushed"], 0, TRUE)
    ELSE IF f.pc = "flushed"
    THEN IF c.current.type = "dc_colon"
         THEN Call([f EXCEPT !.pc = "output"], "type", 0, TRUE)
         ELSE Return(SynOk(f.node), FALSE)
    ELSE IF ~r.has_value
    THEN Return(SynErr("failure"), FALSE)
    ELSE IF f.pc = "param"
    THEN Goto([f EXCEPT !.pc = "while",
                        !.node.inputs = Append(@, r.value)],
              0, c.current.type = "dc_comma")
    ELSE Return(SynOk([f.node EXCEPT !.output = <<r.value>>]), FALSE)

\* type_parser::parse_array.
parse_array == Return(SynOk(nullptr), FALSE)

\* type_parser::parse; r is the result of the parser it called last.  The
\* store through the null pointer parse_array returned is undefined: the
\* process faults, or (survives) the store is lost and the null is returned.
type_parser_parse(c, f, r, survives) ==
    IF f.pc = "entry"
    THEN Call([f EXCEPT !.pc = "path"], "path_expr", 0, FALSE)
    ELSE IF f.pc = "path"
    THEN IF ~r.has_value
         THEN IF r.error = "not_my_syntax"
              THEN Return(SynErr("not_my_syntax"), FALSE)
              ELSE Return(SynErr("failure"), FALSE)
         ELSE IF c.current.type = "dc_lparen"
         THEN Call([f EXCEPT !.pc = "fn", !.path = r.value.segments],
                   "parse_function", 0, FALSE)
         ELSE IF c.current.type = "dc_lbracket"
         THEN Call([f EXCEPT !.pc = "arr", !.path = r.value.segments],
                   "parse_array", 0, FALSE)
         ELSE IF c.current.type # "op_mul" /\ c.current.type # "op_bitand"
         THEN Return(SynOk([TypeNode("raw") EXCEPT
                                !.segments = r.value.segments]), FALSE)
         ELSE Goto([f EXCEPT !.pc = "while", !.node = TypeNode("ref"),
                             !.path = r.value.segments], 0, FALSE)
    ELSE IF f.pc = "fn"
    THEN IF ~r.has_value
         THEN Return(SynErr("failure"), FALSE)
         ELSE Return(SynOk([r.value EXCEPT !.segments = f.path]), FALSE)
    ELSE IF f.pc = "arr"
    THEN IF ~r.has_value
         THEN Return(SynErr("failure"), FALSE)
         ELSE IF survives THEN Return(SynOk(r.value), FALSE) ELSE Fault
    ELSE \* the while loop over pointer and reference sigils
         IF c.current.type = "op_mul" \/ c.current.type = "op_bitand"
         THEN Goto([f EXCEPT !.node.depth =
                        Append(@, c.current.type = "op_mul")], 1, TRUE)
         ELSE Return(SynOk([f.node EXCEPT !.segments = f.path]), FALSE)

(***************************************************************************)
(* Abstract syntax: equality of the nodes                                  *)
(***************************************************************************)

\* The outcome of a comparison declared noexcept, once made: it returns a
\* value, or an exception leaves it and std::terminate ends the process.
Completed(value) == [made |-> TRUE, terminated |-> FALSE, value |-> value]

Terminated == [made |-> TRUE, terminated |-> TRUE, value |-> FALSE]

\* operator==(simple_path, simple_path): the vectors of lexemes are equal.
simple_path_equal(lhs_, rhs_) == Completed(lhs_.segments = rhs_.segments)

RECURSIVE type_equal(_, _)
RECURSIVE types_equal(_, _, _)

\* operator==(segment::generic, segment::generic): the names, then the
\* vectors of inputs (their sizes, then element by element).
generic_equal(lhs_, rhs_) ==
    IF lhs_.name # rhs_.name THEN Completed(FALSE)
    ELSE IF Len(lhs_.inputs) # Len(rhs_.inputs) THEN Completed(FALSE)
    ELSE types_equal(lhs_.inputs, rhs_.inputs, 1)

\* operator==(segment, segment): the alternatives, then what they hold.
segment_equal(lhs_, rhs_) ==
    IF lhs_.kind # rhs_.kind THEN Completed(FALSE)
    ELSE IF lhs_.kind = "primitive" THEN Completed(lhs_.val = rhs_.val)
    ELSE generic_equal(lhs_, rhs_)

\* The loop over the segments of operator==(type, type), from index on.
RECURSIVE segments_equal(_, _, _)
segments_equal(ls, rs, index) ==
    IF index > Len(ls) THEN Completed(TRUE)
    ELSE LET e == segment_equal(ls[index], rs[index])
         IN  IF e.terminated THEN e
             ELSE IF ~e.value THEN Completed(FALSE)
             ELSE segments_equal(ls, rs, index + 1)

\* The loop over the inputs of operator==(type::fn, type::fn), from index on.
types_equal(ls, rs, index) ==
    IF index > Len(ls) THEN Completed(TRUE)
    ELSE LET e == type_equal(ls[index], rs[index])
         IN  IF e.terminated THEN e
             ELSE IF ~e.value THEN Completed(FALSE)
             ELSE types_equal(ls, rs, index + 1)

\* operator==(type::fn, type::fn).  The last statement calls value() on both
\* outputs whether or not they hold one: on an empty optional it throws
\* std::bad_optional_access out of a noexcept function.
fn_equal(lhs_, rhs_) ==
    IF Len(lhs_.inputs) # Len(rhs_.inputs) THEN Completed(FALSE)
    ELSE IF (lhs_.output # <<>>) # (rhs_.output # <<>>) THEN Completed(FALSE)
    ELSE LET e == types_equal(lhs_.inputs, rhs_.inputs, 1)
         IN  IF e.terminated \/ ~e.value THEN e
             ELSE IF lhs_.output = <<>> THEN Terminated
             ELSE type_equal(lhs_.output[1], rhs_.output[1])

\* operator==(type::arr, type::arr).
arr_equal(lhs_, rhs_) == Completed(TRUE)

\* operator==(type::ref, type::ref): the sizes, then depth by depth.
ref_equal(lhs_, rhs_) ==
    IF Len(lhs_.depth) # Len(rhs_.depth) THEN Completed(FALSE)
    ELSE Completed(\A index \in 1..Len(lhs_.depth) :
                       lhs_.depth[index] = rhs_.depth[index])

\* operator==(type, type).
type_equal(lhs_, rhs_) ==
    IF lhs_.variant # rhs_.variant THEN Completed(FALSE)
    ELSE IF Len(lhs_.segments) # Len(rhs_.segments) THEN Completed(FALSE)
    ELSE LET e == segments_equal(lhs_.segments, rhs_.segments, 1)
         IN  IF e.terminated \/ ~e.value THEN e
             ELSE IF lhs_.variant = "fn" THEN fn_equal(lhs_, rhs_)
             ELSE IF lhs_.variant = "arr" THEN arr_equal(lhs_, rhs_)
             ELSE IF lhs_.variant = "ref" THEN ref_equal(lhs_, rhs_)
             ELSE Completed(TRUE)

(***************************************************************************)
(* Abstract syntax: printing of types                                      *)
(***************************************************************************)

\* oss << t.segments[index]: the element is a uptr_t<ast::segment>, and the
\* stream operator of a unique pointer writes the pointer it holds.  adr
\* lists the texts of the pointers in the order they are written and k
\* counts those written already; n segments are joined by periods.
RECURSIVE segments_print(_, _, _)
segments_print(n, adr, k) ==
    IF n = 0 THEN <<>>
    ELSE IF n = 1 THEN adr[k + 1]
    ELSE adr[k + 1] \o <<".">> \o segments_print(n - 1, adr, k + 1)

\* operator<<(std::ostream&, const type&) with the operators of its
\* variants: the text written and the number of pointers written so far.
RECURSIVE type_print(_, _, _)
RECURSIVE inputs_print(_, _, _, _)
type_print(t, adr, k) ==
    LET segs == segments_print(Len(t.segments), adr, k)
        k1 == k + Len(t.segments)
    IN  IF t.variant = "fn"
        THEN LET ins == inputs_print(t.inputs, 1, adr, k1)
                 out == IF t.output = <<>>
                        THEN [text |-> <<>>, used |-> ins.used]
                        ELSE LET o == type_print(t.output[1], adr, ins.used)
                             IN  [text |-> <<" ", ":", " ">> \o o.text,
                                  used |-> o.used]
             IN  [text |-> segs \o <<"(">> \o ins.text \o <<")">>
                               \o out.text,
                  used |-> out.used]
        ELSE IF t.variant = "arr"
        THEN [text |-> segs \o <<"[", "]">>, used |-> k1]
        ELSE IF t.variant = "ref"
        THEN [text |-> segs \o [i \in 1..Len(t.depth) |->
                                   IF t.depth[i] THEN "*" ELSE "&"],
              used |-> k1]
        ELSE [text |-> segs, used |-> k1]

\* The inputs of a function type from position index on, joined by commas.
inputs_print(inputs, index, adr, k) ==
    IF index > Len(inputs) THEN [text |-> <<>>, used |-> k]
    ELSE LET head == type_print(inputs[index], adr, k)
             rest == inputs_print(inputs, index + 1, adr, head.used)
         IN  [text |-> head.text
                         \o (IF index < Len(inputs) THEN <<",">> ELSE <<>>)
                         \o rest.text,
              used |-> rest.used]

(***************************************************************************)
(* Abstract syntax: visitors of documents and modules                      *)
(***************************************************************************)

\* A visitor is described by the node kinds its member visit is overloaded
\* for.  The expression &Visitor::visit has a type only when visit is one
\* function: void (Visitor::*)(const kind&) noexcept.
visit_fn(visitor_) ==
    IF Cardinality(visitor_) = 1 THEN CHOOSE kind \in visitor_ : TRUE
    ELSE "ill_formed"

\* concept DocumentVisitor: &Visitor::visit is a visitor_visit_import_fn
\* and a visitor_visit_module_fn.
DocumentVisitor(visitor_) ==
    /\ visit_fn(visitor_) = "import"
    /\ visit_fn(visitor_) = "module"

\* concept ModuleVisitor.
ModuleVisitor(visitor_) ==
    /\ visit_fn(visitor_) = "alias"
    /\ visit_fn(visitor_) = "enumeration"
    /\ visit_fn(visitor_) = "extension"
    /\ visit_fn(visitor_) = "function"
    /\ visit_fn(visitor_) = "object"
    /\ visit_fn(visitor_) = "variable"

\* std::ranges::for_each(children, bind(&Visitor::visit, &visitor, _1)):
\* the visits it makes, each the kind and the position of the child.
for_each(children, kind) ==
    [i \in 1..Len(children) |-> [kind |-> kind, at |-> i]]

\* The outcome of a call of accept: the call is not built when the
\* constraint of the template fails, and makes its visits otherwise.
Rejected == [made |-> TRUE, built |-> FALSE, order |-> <<>>]

Visits(order) == [made |-> TRUE, built |-> TRUE, order |-> order]

\* document::accept.
document_accept(document, visitor_) ==
    IF ~DocumentVisitor(visitor_) THEN Rejected
    ELSE Visits(for_each(document.imports, "import")
                    \o for_each(document.modules, "module"))

\* module::accept.
module_accept(module, visitor_) ==
    IF ~ModuleVisitor(visitor_) THEN Rejected
    ELSE Visits(for_each(module.aliases, "alias")
                    \o for_each(module.enumerations, "enumeration")
                    \o for_each(module.extensions, "extension")
                    \o for_each(module.functions, "function")
                    \o for_each(module.objects, "object")
                    \o for_each(module.variables, "variable"))

(***************************************************************************)
(* Grammar: symbols, production sets and the FIRST and FOLLOW computation  *)
(***************************************************************************)

\* detail::leaf_upper_limit(): half of the largest int16_t.
leaf_upper_limit == 32767 \div 2

k_epsilon == -1

k_final == -2

\* symbol::is_leaf.
is_leaf(value) == value < leaf_upper_limit

\* enum class leaf : int16_t, the enumerators in declaration order.
leaf_enumerators ==
    <<"eos", "unknown", "comment", "identifier", "lv_signed", "lv_unsigned",
      "lv_decimal", "lv_character", "lv_raw_string", "lv_int_string",
      "lv_ml_string", "lv_mli_string", "lv_null", "lv_true", "lv_false",
      "kw_var", "kw_const", "kw_static", "kw_object", "kw_extend", "kw_def",
      "kw_alias", "kw_bool", "kw_char", "kw_int8", "kw_int16", "kw_int32",
      "kw_int64", "kw_uint8", "kw_uint16", "kw_uint32", "kw_uint64",
      "kw_single", "kw_double", "kw_string", "kw_void", "kw_using",
      "kw_module", "kw_extern", "cf_if", "cf_else", "cf_for", "cf_do",
      "cf_while", "cf_match", "cf_next", "cf_break", "cf_as", "cf_is",
      "cf_return", "op_add", "op_sub", "op_mul", "op_div", "op_mod",
      "op_add_eq", "op_sub_eq", "op_mul_eq", "op_div_eq", "op_mod_eq",
      "op_inc", "op_dec", "op_assign", "op_access", "op_ternary",
      "op_cascade", "op_ellipsis", "op_bitnot", "op_bitand", "op_bitor",
      "op_bitxor", "op_bitlsh", "op_bitrsh", "op_bitnot_eq", "op_bitand_eq",
      "op_bitor_eq", "op_bitxor_eq", "op_bitlsh_eq", "op_bitrsh_eq",
      "op_lognot", "op_logand", "op_logor", "op_logless", "op_logmore",
      "op_logequals", "op_lognot_eq", "op_logand_eq", "op_logor_eq",
      "op_logless_eq", "op_logmore_eq", "dc_lparen", "dc_rparen",
      "dc_lbracket", "dc_rbracket", "dc_lbrace", "dc_rbrace", "dc_comma",
      "dc_terminator", "dc_colon">>

\* The value of a leaf enumerator: eos = -1, every later enumerator one more
\* than the enumerator declared before it.
leaf ==
    [name \in {leaf_enumerators[i] : i \in 1..Len(leaf_enumerators)} |->
        (CHOOSE i \in 1..Len(leaf_enumerators) :
            leaf_enumerators[i] = name) - 2]

\* symbol(leaf value): the enumerator cast to int16_t.
symbol(name) == leaf[name]

\* The start symbol follow_sets seeds.
start_symbol == leaf_upper_limit + 1

Production(head, body) == [head |-> head, body |-> body]

\* prod_sets_t is an ordered multimap: inserting a production puts it
\* after every production whose head is not greater.
RECURSIVE multimap_insert(_, _)
multimap_insert(prods, p) ==
    IF prods = <<>> THEN <<p>>
    ELSE IF prods[Len(prods)].head <= p.head THEN Append(prods, p)
    ELSE Append(multimap_insert(SubSeq(prods, 1, Len(prods) - 1), p),
                prods[Len(prods)])

\* result.merge(rule.productions()).
RECURSIVE merge(_, _)
merge(prods, rule) ==
    IF rule = <<>> THEN prods
    ELSE merge(multimap_insert(prods, Head(rule)), Tail(rule))

\* The fold of prod_sets() over the grammar's rules.
RECURSIVE merge_all(_, _)
merge_all(prods, rules) ==
    IF rules = <<>> THEN prods
    ELSE merge_all(merge(prods, Head(rules)), Tail(rules))

\* symb_sets_t is an ordered map from symbol to ordered set of symbols;
\* results[key] inserts an empty set for a key that is missing.
EmptySets == [key \in {} |-> {}]

subscript(results, key) ==
    IF key \in DOMAIN results THEN results
    ELSE [k \in DOMAIN results \cup {key} |->
             IF k = key THEN {} ELSE results[k]]

\* The elements of an ordered set in iteration order.
RECURSIVE in_order(_)
in_order(set) ==
    IF set = {} THEN <<>>
    ELSE LET least == CHOOSE x \in set : \A y \in set : x <= y
         IN  <<least>> \o in_order(set \ {least})

Elements(seq) == {seq[i] : i \in 1..Len(seq)}

\* result.erase(std::remove(begin, end, k_epsilon)): remove compacts the
\* other elements to the front, erase drops the one element after them.
erase_remove(result) ==
    LET kept == SelectSeq(result, LAMBDA x : x # k_epsilon)
    IN  kept \o SubSeq(result, Len(kept) + 2, Len(result))

\* firsts_of(sequence[index..], firsts) continuing with result; thrown is
\* TRUE when firsts.at(sym) throws std::out_of_range.
RECURSIVE firsts_of_from(_, _, _, _)
firsts_of_from(sequence, index, firsts, result) ==
    IF index > Len(sequence)
    THEN [thrown |-> FALSE, result |-> Append(result, k_epsilon)]
    ELSE LET sym == sequence[index]
         IN  IF is_leaf(sym)
             THEN [thrown |-> FALSE, result |-> Append(result, sym)]
             ELSE IF sym \notin DOMAIN firsts
             THEN [thrown |-> TRUE, result |-> result]
             ELSE LET found == result \o in_order(firsts[sym])
                  IN  IF k_epsilon \notin firsts[sym]
                      THEN [thrown |-> FALSE, result |-> found]
                      ELSE firsts_of_from(sequence, index + 1, firsts,
                                          erase_remove(found))

firsts_of(sequence, firsts) == firsts_of_from(sequence, 1, firsts, <<>>)

\* An update_firsts that never adds epsilon to the set of the head.
update_firsts_without_epsilon(head, body, results) ==
    LET created == subscript(results, head)
        firsts_sequence == firsts_of(body, created)
    IN  IF firsts_sequence.thrown
        THEN [terminated |-> TRUE, proceed |-> FALSE, results |-> created]
        ELSE LET firsts == created[head] \cup
                               (Elements(firsts_sequence.result)
                                    \ {k_epsilon})
             IN  [terminated |-> FALSE,
                  proceed |-> firsts # created[head],
                  results |-> [created EXCEPT ![head] = firsts]]

\* update_firsts(head, body, prods, results): the new results, whether a
\* symbol was added, and whether the call ended in std::terminate.
update_firsts(head, body, results) ==
    LET created == subscript(results, head)
        firsts_sequence == firsts_of(body, created)
    IN  IF firsts_sequence.thrown
        THEN [terminated |-> TRUE, proceed |-> FALSE, results |-> created]
        ELSE LET firsts == created[head] \cup
                               Elements(firsts_sequence.result)
             IN  [terminated |-> FALSE,
                  proceed |-> firsts # created[head],
                  results |-> [created EXCEPT ![head] = firsts]]

\* The loop of update_follows from position index (counted from 1) on.
RECURSIVE update_follows_from(_, _, _, _, _, _)
update_follows_from(head, body, index, firsts, results, proceed) ==
    IF index > Len(body)
    THEN [terminated |-> FALSE, proceed |-> proceed, results |-> results]
    ELSE IF is_leaf(body[index])
    THEN update_follows_from(head, body, index + 1, firsts, results,
                             proceed)
    ELSE LET curr == body[index]
             created == subscript(results, curr)
             firsts_sequence ==
                 firsts_of(SubSeq(body, index + 1, Len(body)), firsts)
             from_firsts ==
                 created[curr] \cup
                     (Elements(firsts_sequence.result) \ {k_epsilon})
             with_head == subscript(created, head)
             from_head ==
                 IF k_epsilon \in Elements(firsts_sequence.result)
                 THEN from_firsts \cup
                          (IF head = curr THEN from_firsts
                           ELSE with_head[head])
                 ELSE from_firsts
             updated ==
                 IF k_epsilon \in Elements(firsts_sequence.result)
                 THEN [with_head EXCEPT ![curr] = from_head]
                 ELSE [created EXCEPT ![curr] = from_head]
         IN  IF firsts_sequence.thrown
             THEN [terminated |-> TRUE, proceed |-> proceed,
                   results |-> created]
             ELSE update_follows_from(
                      head, body, index + 1, firsts, updated,
                      proceed \/ from_head # created[curr])

\* An update_follows that never reports a change.
update_follows_unchanged(head, body, firsts, results) ==
    [update_follows_from(head, body, 1, firsts, results, FALSE)
         EXCEPT !.proceed = FALSE]

update_follows(head, body, firsts, results) ==
    update_follows_from(head, body, 1, firsts, results, FALSE)

(***************************************************************************)
(* ll1_grammar: the process-wide caches and the threads that call them     *)
(***************************************************************************)

\* The node of a production inside the multimap: the production and the
\* identity (inserting thread, rule, position in the rule) of the node.
Node(p, t, k, j) == [head |-> p.head, body |-> p.body, id |-> <<t, k, j>>]

\* The temporary multimap rule k's productions() returns to thread t.
productions(rule, t, k) ==
    [j \in 1..Len(rule) |-> Node(rule[j], t, k, j)]

\* The productions of a multimap without the identity of their nodes.
Plain(nodes) ==
    [i \in 1..Len(nodes) |-> Production(nodes[i].head, nodes[i].body)]

\* Reverse iterators over the multimap hold the node after the one they
\* refer to; crbegin() holds end().
end == <<>>

PositionOf(nodes, base) ==
    IF base = end THEN Len(nodes) + 1
    ELSE CHOOSE i \in 1..Len(nodes) : nodes[i].id = base

crend(nodes) == IF nodes = <<>> THEN end ELSE nodes[1].id

deref(nodes, base) == nodes[PositionOf(nodes, base) - 1]

\* One activation of prod_sets, first_sets or follow_sets: the statement it
\* resumes at, the rule to merge next, the loop iterator and the local
\* proceed ("indeterminate" until it is first assigned).
Activation(fn) ==
    [fn |-> fn, pc |-> "check", k |-> 1, itr |-> end,
     proceed |-> "indeterminate"]

NoReturn == [fn |-> "none", view |-> <<>>]

HostThread(program) == [program |-> program, stack |-> <<>>, ret |-> NoReturn]

(***************************************************************************)
(* Bounds and inputs                                                       *)
(***************************************************************************)

\* Longest enumerated source text.
MaxSrcLen == 3

SeqsUpTo(S, n) == UNION {[1..k -> S] : k \in 0..n}

\* Characters of the radix literals, and of comments, strings and lines.
RadixChars == {"0", "1", "7", "8", "b", "x", " "}

TextChars == {"#", "\n", "\"", "a", " ", ";"}

LexScenarios ==
    { <<"0", "1", "2", "3">>,
      <<"1", ".", "2", ".", "3">>,
      <<"1", "2", ".", "3", "4">>,
      <<"1", "2", ".">>,
      <<"1", ".", "a">>,
      <<"0", ".", "5">>,
      <<"1", ".", ".", "2">>,
      <<"1", "0", ".", "0", "7", " ">>,
      <<"9", ".">>,
      <<"3", ".", "1", "4", ".", "1", "5">>,
      <<"i", "n", "t", "3", "2", "x">>,
      <<"u", "s", "i", "n", "g", "_">>,
      <<"i", "n", "t", "3", "2">>,
      <<"u", "s", "i", "n", "g">>,
      <<"_", "a", "1", " ", "b">>,
      <<"a", "_", "b", ".", "c">>,
      <<"i", "f", "(">>,
      <<"i", "f", "f">>,
      <<"x", "9", "_">>,
      <<"\"", "{", "\"">>,
      <<"\"", "\\", "{", "\"">>,
      <<"\"", "a", "\\", "{", "\"">>,
      <<"\"", "a", "{", "a", "\"", "a">>,
      <<"\"", "{", "\n", "\"">>,
      <<"\"", "{">>,
      <<"\"", "\"", "{", "\"">>,
      <<"\"", "\\", "{", "{", "\"">>,
      <<" ", "\"", "a", "}", "\"">>,
      <<".", "=">>, <<".", ".", "=">>, <<".", ".", ".", ".">>,
      <<"<", "<", "=", "=">>, <<"&", "&", "=">>, <<"+", "+", "=">>,
      <<"+", "=", "+">>, <<"=", "=", "=">>, <<"!", "=", "(", ")">>,
      <<">", ">", ">">>, <<"|", "=", "|", "|">>, <<"?", "=">>,
      <<"0", "b", "1", "1">>,
      <<"0", "b", "0", "1", " ">>,
      <<"0", "x", "1", "g">>,
      <<"0", "1", "7", " ", "8">>,
      <<"x", "\n", "#", "c", "\n", "y">>,
      <<"\"", "\"", "\"", "m", "\n", "l", "\"", "\"", "\"", ";", "z">>,
      <<"r", "\"", "\"", "\"", "a", "\n", "\"", "\"", "\"">>,
      <<"r", "\"", "\"", "\"", "{", "\"", "\"", "\"">>,
      <<"\"", "\"", "\"", "\"", "\"", "\"">>,
      <<"\"", "\"", "\"", "a">>,
      <<"\"", "\"", "\"", "a", "\"", "\"">>,
      <<"\"", "\"", "\"", "{", "\"", "\"", "\"">>,
      <<"\"", "\"", "\"", "\\", "{", "\"", "\"", "\"">>,
      <<"'", "\\", "u", "B", "'">>,
      <<"'", "\\", "u", "B", "e", "e", "F", "'">>,
      <<"'", "\\", "u", "B", "e", "e", "F", "1", "'">>,
      <<"'", "\\", "u", "g", "'">>,
      <<"'", "\\", "u", "B">>,
      <<"'", "\\", "u", "'">> }

LexSources ==
    SeqsUpTo(RadixChars, MaxSrcLen) \cup SeqsUpTo(TextChars, MaxSrcLen)
        \cup LexScenarios

(***************************************************************************)
(* State                                                                   *)
(***************************************************************************)

VARIABLES
    lex_state,  \* the lex::state: code, cursor and pending-token origin
    checked,    \* TRUE in a build whose library checks string_view indices
    call,       \* the last call made on lex_state and what it returned
    ctx,        \* the syn::state the parsers work on
    stack,      \* the activations of parser functions, innermost last
    ret,        \* the result the last returning parser function produced
    status,     \* idle, fresh, running, done or faulted
    entry,      \* the parser the host called
    advancing,  \* TRUE while the next_token() ending a step is to be made
    iters,      \* loop iterations the parsers have begun
    rules,      \* the grammar: the productions() of each of its rules
    prod_sets_result,    \* the static result of prod_sets()
    first_sets_result,   \* the static result of first_sets()
    follow_sets_result,  \* the static result of follow_sets()
    thread,     \* per host thread: calls to make, activations, last return
    process,    \* idle, running, terminated (std::terminate) or faulted
    lhs,        \* the left operand of a comparison of two nodes
    rhs,        \* the right operand
    equal,      \* the outcome of the comparison, once made
    visitee,    \* the document or module a visitor is handed to
    visitor,    \* the node kinds the visitor's visit is overloaded for
    visited     \* the outcome of accept: the visits made, in order

lex_vars == <<lex_state, call>>

syn_vars == <<ctx, stack, ret, status, entry, advancing, iters>>

grammar_vars ==
    <<rules, prod_sets_result, first_sets_result, follow_sets_result, thread,
      process>>

ast_vars == <<lhs, rhs, equal>>

visit_vars == <<visitee, visitor, visited>>

vars ==
    <<lex_vars, checked, syn_vars, grammar_vars, ast_vars, visit_vars>>

NoCall ==
    [kind |-> "none", rule |-> "none", before |-> NewLexState(<<>>),
     res |-> Unexpected(NewLexState(<<>>), "success"), probed |-> <<>>,
     ran |-> 0, aborted |-> FALSE]

IdleLex == lex_state = NewLexState(<<>>) /\ call = NoCall

IdleSyn ==
    /\ ctx = NewSynState(<<>>)
    /\ stack = <<>>
    /\ ret = SynErr("success")
    /\ status = "idle"
    /\ entry = "none"
    /\ advancing = FALSE
    /\ iters = 0

IdleGrammar ==
    /\ rules = <<>>
    /\ prod_sets_result = <<>>
    /\ first_sets_result = EmptySets
    /\ follow_sets_result = EmptySets
    /\ thread = <<>>
    /\ process = "idle"

NotCompared == [made |-> FALSE, terminated |-> FALSE, value |-> FALSE]

IdleAst == lhs = <<>> /\ rhs = <<>> /\ equal = NotCompared

NotVisited == [made |-> FALSE, built |-> FALSE, order |-> <<>>]

IdleVisit == visitee = <<>> /\ visitor = {} /\ visited = NotVisited

(***************************************************************************)
(* The lexer driven by a host: one token per call                          *)
(***************************************************************************)

InitLex ==
    /\ \E src \in LexSources : lex_state = NewLexState(src)
    /\ checked \in BOOLEAN
    /\ call = NoCall
    /\ IdleSyn
    /\ IdleGrammar
    /\ IdleAst
    /\ IdleVisit

\* lexer::tokenize(state): the host asks the lexical analyzer for a token.
LexerTokenize ==
    /\ ~call.aborted
    /\ LET r == lexical_analyzer_tokenize(lexer, lex_state, checked)
       IN  /\ lex_state' = r.res.st
           /\ call' = [kind |-> "lexer", rule |-> "none",
                       before |-> lex_state, res |-> r.res,
                       probed |-> r.probed, ran |-> r.ran,
                       aborted |-> r.aborted]
    /\ UNCHANGED <<checked, syn_vars, grammar_vars, ast_vars, visit_vars>>

\* rule.tokenize(state): the host applies one rule whose litmus accepts the
\* remaining source, as the unit tests of the rules do.
RuleTokenize ==
    /\ ~call.aborted
    /\ \E rule \in {lexer[i] : i \in 1..Len(lexer)} :
          /\ litmus(rule, remaining_source(lex_state))
          /\ LET r == tokenize(rule, lex_state)
             IN  /\ lex_state' = r.st
                 /\ call' = [kind |-> "rule", rule |-> rule,
                             before |-> lex_state, res |-> r,
                             probed |-> <<>>, ran |-> 0,
                             aborted |-> FALSE]
    /\ UNCHANGED <<checked, syn_vars, grammar_vars, ast_vars, visit_vars>>

NextLex == LexerTokenize \/ RuleTokenize

SpecLex == InitLex /\ [][NextLex]_vars

(***************************************************************************)
(* lex::state driven by a host: reads, token starts and extractions        *)
(***************************************************************************)

\* Longest enumerated source of a lex::state driven directly.
MaxStateLen == 3

StateChars == {"a", "\n", "\r", "\f"}

\* A call made on the state: the state before it, and what it returned.
StateCall(kind, before, char, token) ==
    [kind |-> kind, before |-> before, char |-> char, token |-> token]

InitState ==
    /\ \E src \in SeqsUpTo(StateChars, MaxStateLen) :
          lex_state = NewLexState(src)
    /\ call = StateCall("none", NewLexState(<<>>), NUL, EmptyToken)
    /\ checked = FALSE
    /\ IdleSyn
    /\ IdleGrammar
    /\ IdleAst
    /\ IdleVisit

\* state.read_src_char().
ReadSrcChar ==
    /\ lex_state' = read_src_char(lex_state)
    /\ call' = StateCall("read_src_char", lex_state,
                         curr_src_char(lex_state), EmptyToken)
    /\ UNCHANGED <<checked, syn_vars, grammar_vars, ast_vars, visit_vars>>

\* state.start_token().
StartToken ==
    /\ lex_state' = start_token(lex_state)
    /\ call' = StateCall("start_token", lex_state, NUL, EmptyToken)
    /\ UNCHANGED <<checked, syn_vars, grammar_vars, ast_vars, visit_vars>>

\* state.extract_token(type).
ExtractToken ==
    /\ \E type \in {"unknown", "identifier"} :
          call' = StateCall("extract_token", lex_state, NUL,
                            extract_token(lex_state, type))
    /\ UNCHANGED <<lex_state, checked, syn_vars, grammar_vars, ast_vars,
                   visit_vars>>

NextState ==
    \/ ReadSrcChar
    \/ StartToken
    \/ ExtractToken

SpecState == InitState /\ [][NextState]_vars

(***************************************************************************)
(* The parsers driven by a host: one parse per source                      *)
(***************************************************************************)

\* Longest enumerated source text of a parse.
MaxParseLen == 3

\* Loop iterations followed beyond one per character of the source.
IterSlack == 1

TypeChars == {"a", ".", "<", ">", "*", "(", "["}

ParseScenarios ==
    {<<"i", "n", "t", "3", "2", "*", "*", "&", "&", "*", "&">>,
     <<"a", "<", "b", ">", ".", "c">>,
     <<"i", "n", "t", "3", "2", "*">>,
     <<"f", "(", "a">>,
     <<"a", "<", "b">>,
     <<"u", "s", "i", "n", "g", " ", "s", "t", "d", ";">>,
     <<"u", "s", "i", "n", "g", " ", "a", ".", "b", ";">>,
     <<"u", "s", "i", "n", "g", " ", "a", ".", ";">>,
     <<"u", "s", "i", "n", "g", " ", "a">>,
     <<"u", "s", "i", "n", "g", " ", "a", " ", "b">>,
     <<"a", "(", ")">>,
     <<"a", "(", "b", ")">>,
     <<"a", "(", ")", ":", "b">>,
     <<"a", "(", "b", "<", "c", ">", ")">>,
     <<"a", "(", "b", ",", "c", ")", ":", "d">>,
     <<"a", "(", "b", ")", ":", "i", "n", "t", "3", "2", "*">>,
     <<"a", "[">>,
     <<"a", "[", "]">>,
     <<"a", "<", "b", ",", "c", ">">>,
     <<"a", ".", "b", ".", "c">>,
     <<"a", "&">>,
     <<"a", "*", "&", "*", ".">>,
     <<"i", "n", "t", "8", " ", ".", " ", "a">>,
     <<"a", "<", "i", "n", "t", "3", "2", ">", "(", "b", ")", "&">>}

\* The types printed and parsed again: raw, function with and without
\* inputs and output, array and reference.
NamedType(variant, names) ==
    [TypeNode(variant) EXCEPT
        !.segments = [i \in 1..Len(names) |-> GenericSegment(names[i])]]

RoundTripTypes ==
    {NamedType("raw", <<<<"a">>>>),
     NamedType("raw", <<<<"a">>, <<"b">>>>),
     NamedType("arr", <<<<"a">>>>),
     [NamedType("ref", <<<<"a">>>>) EXCEPT !.depth = <<TRUE>>],
     [NamedType("ref", <<<<"a">>>>) EXCEPT !.depth = <<FALSE, TRUE>>],
     NamedType("fn", <<<<"a">>>>),
     [NamedType("fn", <<<<"a">>>>) EXCEPT
         !.inputs = <<NamedType("raw", <<<<"b">>>>)>>],
     [NamedType("fn", <<<<"a">>>>) EXCEPT
         !.inputs = <<NamedType("raw", <<<<"b">>>>)>>,
         !.output = <<NamedType("raw", <<<<"c">>>>)>>]}

\* Most pointers one printed type writes.
MaxPointers == 3

\* The texts a stream writes for the pointers of distinct live objects.
PointerTexts ==
    {<<"0", "x", "1", "0">>, <<"0", "x", "2", "8">>, <<"0", "x", "a", "0">>}

PointerSupplies ==
    {adr \in [1..MaxPointers -> PointerTexts] :
        \A i, j \in 1..MaxPointers : i # j => adr[i] # adr[j]}

PrintedTypes ==
    {type_print(t, adr, 0).text : t \in RoundTripTypes,
                                  adr \in PointerSupplies}

ParseSources ==
    SeqsUpTo(TypeChars, MaxParseLen) \cup ParseScenarios \cup PrintedTypes

Parsers == {"import", "simple_path", "segment", "path_expr", "type"}

InitParse ==
    /\ \E src \in ParseSources : ctx = NewSynState(src)
    /\ checked \in BOOLEAN
    /\ stack = <<>>
    /\ ret = SynErr("success")
    /\ status = "fresh"
    /\ entry = "none"
    /\ advancing = FALSE
    /\ iters = 0
    /\ IdleLex
    /\ IdleGrammar
    /\ IdleAst
    /\ IdleVisit

Top == stack[Len(stack)]

Running ==
    /\ status = "running"
    /\ ~advancing
    /\ ~ctx.aborted
    /\ iters < Len(ctx.lex_state.code) + IterSlack

\* The effect of one step of the innermost parser function.
Apply(o) ==
    /\ advancing' = o.advance
    /\ iters' = iters + o.iter
    /\ stack' = IF o.act = "return" THEN SubSeq(stack, 1, Len(stack) - 1)
                ELSE IF o.act = "call"
                THEN Append([stack EXCEPT ![Len(stack)] = o.frame],
                            Frame(o.callee))
                ELSE IF o.act = "goto"
                THEN [stack EXCEPT ![Len(stack)] = o.frame]
                ELSE stack
    /\ ret' = IF o.act = "return" THEN o.ret ELSE ret
    /\ status' = IF o.act = "fault" THEN "faulted"
                 ELSE IF o.act = "return" /\ Len(stack) = 1 THEN "done"
                 ELSE status
    /\ UNCHANGED <<lex_vars, checked, ctx, entry, grammar_vars,
                   ast_vars, visit_vars>>

\* The host reads the first token and calls one parser.
StartParse ==
    /\ status = "fresh"
    /\ \E e \in Parsers :
          /\ entry' = e
          /\ stack' = <<Frame(e)>>
    /\ advancing' = TRUE
    /\ status' = "running"
    /\ UNCHANGED <<lex_vars, checked, ctx, ret, iters, grammar_vars,
                   ast_vars, visit_vars>>

\* ctx.next_token(): the token read that ends a step.
NextToken ==
    /\ advancing
    /\ ctx' = next_token(ctx, checked)
    /\ advancing' = FALSE
    /\ UNCHANGED <<lex_vars, checked, stack, ret, status, entry, iters,
                   grammar_vars, ast_vars, visit_vars>>

\* The called parser has returned to the host.
Returned == status = "done" /\ ~advancing

ImportParserParse ==
    /\ Running /\ Top.fn = "import"
    /\ Apply(import_parser_parse(ctx, Top, ret))

SimplePathParserParse ==
    /\ Running /\ Top.fn = "simple_path"
    /\ Apply(simple_path_parser_parse(ctx, Top))

SegmentParserParse ==
    /\ Running /\ Top.fn = "segment"
    /\ Apply(segment_parser_parse(ctx, Top, ret))

PathExprParserParse ==
    /\ Running /\ Top.fn = "path_expr"
    /\ Apply(path_expr_parser_parse(ctx, Top, ret))

TypeParserParse ==
    /\ Running /\ Top.fn = "type"
    /\ \E survives \in BOOLEAN :
          Apply(type_parser_parse(ctx, Top, ret, survives))

ParseFunction ==
    /\ Running /\ Top.fn = "parse_function"
    /\ Apply(parse_function(ctx, Top, ret))

ParseArray ==
    /\ Running /\ Top.fn = "parse_array"
    /\ Apply(parse_array)

NextParse ==
    \/ StartParse
    \/ NextToken
    \/ ImportParserParse
    \/ SimplePathParserParse
    \/ SegmentParserParse
    \/ PathExprParserParse
    \/ TypeParserParse
    \/ ParseFunction
    \/ ParseArray

SpecParse == InitParse /\ [][NextParse]_vars

(***************************************************************************)
(* The nodes compared by a host: one comparison per pair                   *)
(***************************************************************************)

\* Longest path of a compared raw type or simple path.
MaxSegments == 2

\* Most pointer and reference sigils of a compared reference type.
MaxDepth == 2

\* Most parameters of a compared function type.
MaxInputs == 1

NonEmptySeqsUpTo(set, n) == SeqsUpTo(set, n) \ {<<>>}

RawOver(segments) == [TypeNode("raw") EXCEPT !.segments = segments]

ArrOver(segments) == [TypeNode("arr") EXCEPT !.segments = segments]

RefOver(segments, depth) ==
    [TypeNode("ref") EXCEPT !.segments = segments, !.depth = depth]

FnOver(segments, inputs, output) ==
    [TypeNode("fn") EXCEPT !.segments = segments, !.inputs = inputs,
                           !.output = output]

GenericOver(name, inputs) == [GenericSegment(name) EXCEPT !.inputs = inputs]

PlainSegments == {PrimitiveSegment("p_int32"), GenericSegment(<<"a">>)}

\* The types written as parameters, outputs and generic arguments.
InnerTypes ==
    {RawOver(<<PrimitiveSegment("p_int32")>>),
     RawOver(<<GenericSegment(<<"a">>)>>),
     FnOver(<<GenericSegment(<<"a">>)>>, <<>>, <<>>)}

AstSegments ==
    PlainSegments
        \cup {GenericOver(<<"a">>, <<t>>) : t \in InnerTypes}

AstTypes ==
    {RawOver(ss) : ss \in NonEmptySeqsUpTo(PlainSegments, MaxSegments)}
        \cup {RawOver(<<s>>) : s \in AstSegments}
        \cup {ArrOver(<<s>>) : s \in PlainSegments}
        \cup {RefOver(<<s>>, d) :
                 s \in PlainSegments, d \in NonEmptySeqsUpTo(BOOLEAN, MaxDepth)}
        \cup {FnOver(<<GenericSegment(<<"a">>)>>, is, o) :
                 is \in SeqsUpTo(InnerTypes, MaxInputs),
                 o \in {<<>>} \cup {<<t>> : t \in InnerTypes}}

AstSimplePaths ==
    {[segments |-> ss] :
        ss \in NonEmptySeqsUpTo({<<"a">>, <<"b">>}, MaxSegments)}

InitAst ==
    /\ \E pair \in (AstTypes \X AstTypes) \cup (AstSegments \X AstSegments)
                      \cup (AstSimplePaths \X AstSimplePaths) :
          lhs = pair[1] /\ rhs = pair[2]
    /\ equal = NotCompared
    /\ checked = FALSE
    /\ IdleLex
    /\ IdleSyn
    /\ IdleGrammar
    /\ IdleVisit

\* The host evaluates lhs == rhs on two types.
CompareTypes ==
    /\ equal = NotCompared
    /\ lhs \in AstTypes
    /\ equal' = type_equal(lhs, rhs)
    /\ UNCHANGED <<lex_vars, checked, syn_vars, grammar_vars, lhs, rhs,
                 visit_vars>>

\* The host evaluates lhs == rhs on two segments.
CompareSegments ==
    /\ equal = NotCompared
    /\ lhs \in AstSegments
    /\ equal' = segment_equal(lhs, rhs)
    /\ UNCHANGED <<lex_vars, checked, syn_vars, grammar_vars, lhs, rhs,
                 visit_vars>>

\* The host evaluates lhs == rhs on two simple paths.
CompareSimplePaths ==
    /\ equal = NotCompared
    /\ lhs \in AstSimplePaths
    /\ equal' = simple_path_equal(lhs, rhs)
    /\ UNCHANGED <<lex_vars, checked, syn_vars, grammar_vars, lhs, rhs,
                 visit_vars>>

NextAst == CompareTypes \/ CompareSegments \/ CompareSimplePaths

SpecAst == InitAst /\ [][NextAst]_vars

(***************************************************************************)
(* The nodes visited by a host: one accept per node and visitor            *)
(***************************************************************************)

\* Most children of one kind in an enumerated document or module.
MaxChildren == 2

DocumentKinds == {"import", "module"}

ModuleKinds ==
    {"alias", "enumeration", "extension", "function", "object", "variable"}

\* Children are told apart by their position; their content is a name.
ChildrenUpTo(n) == SeqsUpTo({"n"}, n)

Documents ==
    [kind : {"document"}, imports : ChildrenUpTo(MaxChildren),
     modules : ChildrenUpTo(MaxChildren)]

Modules ==
    [kind : {"module"}, aliases : ChildrenUpTo(MaxChildren),
     enumerations : ChildrenUpTo(1), extensions : ChildrenUpTo(1),
     functions : ChildrenUpTo(1), objects : ChildrenUpTo(1),
     variables : ChildrenUpTo(MaxChildren)]

InitVisit ==
    /\ \/ visitee \in Documents /\ visitor \in SUBSET DocumentKinds
       \/ visitee \in Modules
            /\ visitor \in {{}, ModuleKinds} \cup {{k} : k \in ModuleKinds}
    /\ visited = NotVisited
    /\ checked = FALSE
    /\ IdleLex
    /\ IdleSyn
    /\ IdleGrammar
    /\ IdleAst

\* The host writes document.accept(visitor).
DocumentAccept ==
    /\ ~visited.made
    /\ visitee.kind = "document"
    /\ visited' = document_accept(visitee, visitor)
    /\ UNCHANGED <<lex_vars, checked, syn_vars, grammar_vars, ast_vars,
                   visitee, visitor>>

\* The host writes module.accept(visitor).
ModuleAccept ==
    /\ ~visited.made
    /\ visitee.kind = "module"
    /\ visited' = module_accept(visitee, visitor)
    /\ UNCHANGED <<lex_vars, checked, syn_vars, grammar_vars, ast_vars,
                   visitee, visitor>>

NextVisit == DocumentAccept \/ ModuleAccept

SpecVisit == InitVisit /\ [][NextVisit]_vars

(***************************************************************************)
(* The grammar engine called by its hosts                                  *)
(***************************************************************************)

Active(t) == process = "running" /\ thread[t].stack # <<>>

TopOf(t) == thread[t].stack[Len(thread[t].stack)]

\* The thread's innermost activation goes on as f.
Continue(t, f) ==
    [thread EXCEPT ![t].stack[Len(thread[t].stack)] = f]

\* The thread's innermost activation calls fn and resumes as f.
Invoke(t, f, fn) ==
    [thread EXCEPT ![t].stack =
        Append([@ EXCEPT ![Len(@)] = f], Activation(fn))]

\* The thread's innermost activation returns a reference to the static
\* result, whose content at that moment is view.
Leave(t, view) ==
    [thread EXCEPT ![t].stack = SubSeq(@, 1, Len(@) - 1),
                   ![t].ret = [fn |-> TopOf(t).fn, view |-> view]]

\* A host thread makes the next call of its program.
HostCall(t) ==
    /\ process = "running"
    /\ thread[t].stack = <<>>
    /\ thread[t].program # <<>>
    /\ thread' = [thread EXCEPT
                     ![t].program = Tail(@),
                     ![t].stack = <<Activation(Head(thread[t].program))>>]
    /\ UNCHANGED <<rules, prod_sets_result, first_sets_result,
                   follow_sets_result, process, lex_vars, checked, syn_vars,
                   ast_vars, visit_vars>>

\* prod_sets(): return the static result if it has elements, else merge
\* the productions of every rule into it, one rule at a time.
ProdSets(t) ==
    /\ Active(t) /\ TopOf(t).fn = "prod_sets"
    /\ LET f == TopOf(t)
           merging == f.pc = "merge" \/ Len(prod_sets_result) = 0
           merged == IF merging /\ f.k <= Len(rules)
                     THEN merge(prod_sets_result,
                                productions(rules[f.k], t, f.k))
                     ELSE prod_sets_result
       IN  /\ prod_sets_result' = merged
           /\ thread' = IF merging /\ f.k < Len(rules)
                        THEN Continue(t, [f EXCEPT !.pc = "merge",
                                                   !.k = @ + 1])
                        ELSE Leave(t, Plain(merged))
    /\ UNCHANGED <<rules, first_sets_result, follow_sets_result, process,
                   lex_vars, checked, syn_vars, ast_vars, visit_vars>>

\* The outcome of reading the local proceed in while (proceed): what was
\* assigned last, or, never assigned, whatever its storage holds, which
\* the next reads find again.
ProceedValues(f) ==
    IF f.proceed = "indeterminate" THEN BOOLEAN ELSE {f.proceed = "true"}

\* The local proceed after an assignment.
Assigned(value) == IF value THEN "true" ELSE "false"

\* first_sets(): return the static result if it has elements, else run
\* update_firsts over the productions in reverse until proceed is false.
FirstSets(t) ==
    /\ Active(t) /\ TopOf(t).fn = "first_sets"
    /\ LET f == TopOf(t)
           prods == prod_sets_result
           p == deref(prods, f.itr)
           u == update_firsts(p.head, p.body, first_sets_result)
       IN  IF f.pc = "check"
           THEN /\ thread' = IF DOMAIN first_sets_result # {}
                             THEN Leave(t, first_sets_result)
                             ELSE Invoke(t, [f EXCEPT !.pc = "for"],
                                         "prod_sets")
                /\ UNCHANGED <<first_sets_result, process>>
           ELSE IF f.pc = "for" /\ f.itr # crend(prods)
           THEN /\ first_sets_result' = u.results
                /\ process' = IF u.terminated THEN "terminated" ELSE process
                /\ thread' = Continue(t, [f EXCEPT !.itr = p.id,
                                                   !.proceed = Assigned(u.proceed)])
           ELSE /\ \E again \in ProceedValues(f) :
                      thread' = IF again
                                THEN Continue(t, [f EXCEPT
                                                     !.itr = end,
                                                     !.proceed =
                                                         Assigned(again)])
                                ELSE Leave(t, first_sets_result)
                /\ UNCHANGED <<first_sets_result, process>>
    /\ UNCHANGED <<rules, prod_sets_result, follow_sets_result, lex_vars,
                   checked, syn_vars, ast_vars, visit_vars>>

\* follow_sets(): return the static result if it has elements, else seed
\* the start symbol with k_final, fetch the productions and the FIRST sets
\* and run update_follows over the productions in reverse until proceed
\* is false.
FollowSets(t) ==
    /\ Active(t) /\ TopOf(t).fn = "follow_sets"
    /\ LET f == TopOf(t)
           prods == prod_sets_result
           p == deref(prods, f.itr)
           u == update_follows(p.head, p.body, first_sets_result,
                               follow_sets_result)
           seeded == subscript(follow_sets_result, start_symbol)
       IN  IF f.pc = "check" /\ DOMAIN follow_sets_result # {}
           THEN /\ thread' = Leave(t, follow_sets_result)
                /\ UNCHANGED <<follow_sets_result, process>>
           ELSE IF f.pc = "check"
           THEN /\ follow_sets_result' =
                       [seeded EXCEPT ![start_symbol] = @ \cup {k_final}]
                /\ thread' = Invoke(t, [f EXCEPT !.pc = "firsts"],
                                    "prod_sets")
                /\ UNCHANGED process
           ELSE IF f.pc = "firsts"
           THEN /\ thread' = Invoke(t, [f EXCEPT !.pc = "for"],
                                    "first_sets")
                /\ UNCHANGED <<follow_sets_result, process>>
           ELSE IF f.pc = "for" /\ f.itr # crend(prods)
           THEN /\ follow_sets_result' = u.results
                /\ process' = IF u.terminated THEN "terminated" ELSE process
                /\ thread' = Continue(t, [f EXCEPT !.itr = p.id,
                                                   !.proceed = Assigned(u.proceed)])
           ELSE /\ \E again \in ProceedValues(f) :
                      thread' = IF again
                                THEN Continue(t, [f EXCEPT
                                                     !.itr = end,
                                                     !.proceed =
                                                         Assigned(again)])
                                ELSE Leave(t, follow_sets_result)
                /\ UNCHANGED <<follow_sets_result, process>>
    /\ UNCHANGED <<rules, prod_sets_result, first_sets_result, lex_vars,
                   checked, syn_vars, ast_vars, visit_vars>>

\* Most productions of an enumerated grammar.
MaxProds == 3

\* Threads that call the grammar engine at the same time.
NumThreads == 2

S == start_symbol

C == start_symbol + 1

\* The productions enumerated grammars are built from; 1 and 2 are leaves.
ProductionPool ==
    {Production(S, <<1>>), Production(S, <<k_epsilon>>),
     Production(S, <<S, 1>>), Production(S, <<C, 1>>),
     Production(C, <<k_epsilon>>), Production(C, <<2>>),
     Production(C, <<C, S>>), Production(C, <<S>>)}

Injective(seq) ==
    \A i, j \in 1..Len(seq) : seq[i] = seq[j] => i = j

\* Every grammar of one rule whose productions() holds up to MaxProds
\* different productions of the pool, in every order of insertion.
EnumeratedGrammars ==
    {<<merge(<<>>, seq)>> :
        seq \in {q \in SeqsUpTo(ProductionPool, MaxProds) : Injective(q)}}

\* The grammar of tests/syn/grammar.cpp: leaves ident 0, add 1, mul 2,
\* lparen 3, rparen 4 and roots E, EP, T, TP, F from start_symbol on.
ExpressionGrammar ==
    LET E == start_symbol
        EP == start_symbol + 1
        T == start_symbol + 2
        TP == start_symbol + 3
        F == start_symbol + 4
    IN  << <<Production(E, <<T, EP>>)>>,
           <<Production(EP, <<1, T, EP>>), Production(EP, <<k_epsilon>>)>>,
           <<Production(T, <<F, TP>>)>>,
           <<Production(TP, <<2, F, TP>>), Production(TP, <<k_epsilon>>)>>,
           <<Production(F, <<3, E, 4>>), Production(F, <<0>>)>> >>

\* S is a list of leaves, C a list of S.
ListGrammar ==
    << <<Production(S, <<S, 1>>), Production(S, <<1>>)>>,
       <<Production(C, <<k_epsilon>>), Production(C, <<C, S>>)>> >>

\* S -> 1 | C 1 and C -> 1 S.
TailGrammar ==
    << <<Production(S, <<1>>), Production(S, <<C, 1>>)>>,
       <<Production(C, <<1, S>>)>> >>

\* S -> C 1 and C -> 2 | epsilon, in two rules.
OptionGrammar ==
    << <<Production(S, <<C, 1>>)>>,
       <<Production(C, <<2>>), Production(C, <<k_epsilon>>)>> >>

GrammarFamily ==
    EnumeratedGrammars
        \cup {<<>>, ExpressionGrammar, ListGrammar, TailGrammar,
              OptionGrammar}

HostPrograms ==
    {<<"prod_sets", "first_sets", "follow_sets">>,
     <<"follow_sets", "first_sets", "prod_sets">>}

EntryPoints == {"prod_sets", "first_sets", "follow_sets"}

InitGrammar ==
    /\ rules \in GrammarFamily
    /\ prod_sets_result = <<>>
    /\ first_sets_result = EmptySets
    /\ follow_sets_result = EmptySets
    /\ \E program \in HostPrograms :
          thread = [t \in {1} |-> HostThread(program)]
    /\ process = "running"
    /\ checked = FALSE
    /\ IdleLex
    /\ IdleSyn
    /\ IdleAst
    /\ IdleVisit

NextGrammar ==
    \/ \E t \in DOMAIN thread : HostCall(t)
    \/ \E t \in DOMAIN thread : ProdSets(t)
    \/ \E t \in DOMAIN thread : FirstSets(t)
    \/ \E t \in DOMAIN thread : FollowSets(t)

SpecGrammar == InitGrammar /\ [][NextGrammar]_vars

\* The same engine when a thread that can take a step eventually takes one.
SpecGrammarLive == SpecGrammar /\ WF_vars(NextGrammar)

(***************************************************************************)
(* The grammar engine called by several threads at once                    *)
(***************************************************************************)

\* The static results the next step of thread t reads and writes.
Reads(t) ==
    LET f == TopOf(t)
    IN  IF ~Active(t) THEN {}
        ELSE IF f.fn = "prod_sets" THEN {"prod_sets"}
        ELSE IF f.fn = "first_sets"
        THEN (IF f.pc = "check" THEN {"first_sets"} ELSE {"prod_sets"})
        ELSE IF f.pc = "check" THEN {"follow_sets"}
        ELSE IF f.pc = "for" THEN {"prod_sets", "first_sets"}
        ELSE {}

Writes(t) ==
    LET f == TopOf(t)
    IN  IF ~Active(t) THEN {}
        ELSE IF f.fn = "prod_sets"
        THEN (IF f.pc = "merge" \/ Len(prod_sets_result) = 0
              THEN {"prod_sets"} ELSE {})
        ELSE IF f.fn = "first_sets"
        THEN (IF f.pc = "for" /\ f.itr # crend(prod_sets_result)
              THEN {"first_sets"} ELSE {})
        ELSE IF f.pc = "check" /\ DOMAIN follow_sets_result = {}
        THEN {"follow_sets"}
        ELSE IF f.pc = "for" /\ f.itr # crend(prod_sets_result)
        THEN {"follow_sets"}
        ELSE {}

\* Two threads are about to access the same static container, one of
\* them writing, with nothing ordering the accesses: the behaviour is
\* undefined.  Either the accesses take effect one after the other (the
\* other actions) or the container is corrupted and the process faults.
RaceFault ==
    /\ process = "running"
    /\ \E t1, t2 \in DOMAIN thread :
          /\ t1 # t2
          /\ Writes(t1) \cap (Reads(t2) \cup Writes(t2)) # {}
    /\ process' = "faulted"
    /\ UNCHANGED <<rules, prod_sets_result, first_sets_result,
                   follow_sets_result, thread, lex_vars, checked, syn_vars,
                   ast_vars, visit_vars>>

InitCache ==
    /\ rules \in {OptionGrammar, ExpressionGrammar}
    /\ prod_sets_result = <<>>
    /\ first_sets_result = EmptySets
    /\ follow_sets_result = EmptySets
    /\ thread \in [1..NumThreads -> {HostThread(<<fn>>) : fn \in EntryPoints}]
    /\ process = "running"
    /\ checked = FALSE
    /\ IdleLex
    /\ IdleSyn
    /\ IdleAst
    /\ IdleVisit

NextCache ==
    \/ \E t \in DOMAIN thread : HostCall(t)
    \/ \E t \in DOMAIN thread : ProdSets(t)
    \/ \E t \in DOMAIN thread : FirstSets(t)
    \/ \E t \in DOMAIN thread : FollowSets(t)
    \/ RaceFault

SpecCache == InitCache /\ [][NextCache]_vars

(***************************************************************************)
(* Properties of the lexer                                                 *)
(***************************************************************************)

\* The rule that produced the last call's result ("none" when no rule ran).
RuleOfCall ==
    IF call.kind = "rule" THEN call.rule
    ELSE IF call.kind = "lexer" /\ call.ran # 0 THEN lexer[call.ran]
    ELSE "none"

\* The state a rule of the last call started from: the dispatcher skips
\* whitespace first, a directly applied rule starts where the host stands.
RuleStart ==
    IF call.kind = "lexer" THEN skip_whitespace(call.before) ELSE call.before

\* C1: the dispatcher probes the rules in their declared order on the source
\* left after whitespace, each at most once; only the first rule whose litmus
\* holds runs tokenize and its result is returned unchanged; when every
\* litmus has returned false the result is not_my_token.
C1_DispatchInOrder ==
    call.kind = "lexer" =>
        LET s0 == skip_whitespace(call.before)
            src == remaining_source(s0)
            n == Len(call.probed)
        IN  /\ n >= 1 /\ n <= Len(lexer)
            /\ \A i \in 1..n : call.probed[i] = i
            /\ \A i \in 1..(n - 1) : ~litmus(lexer[i], src)
            /\ call.ran # 0 =>
                  /\ call.ran = n
                  /\ litmus(lexer[n], src)
                  /\ call.res = tokenize(lexer[n], s0)
            /\ (call.ran = 0 /\ ~call.aborted) =>
                  /\ n = Len(lexer)
                  /\ ~litmus(lexer[n], src)
                  /\ ~call.res.has_value
                  /\ call.res.error = "not_my_token"
                  /\ call.res.st = s0

\* C1 witness: a rule other than the first ran after the earlier ones
\* declined, and a call in which every rule declined.
C1_Witness_LaterRuleRan ==
    /\ call.kind = "lexer"
    /\ call.ran >= 5
    /\ call.res.has_value
    /\ call.before.index > 0

\* Number of newlines in code[0 .. upto).
RECURSIVE CountNewlines(_, _)
CountNewlines(code, upto) ==
    IF upto = 0 THEN 0
    ELSE CountNewlines(code, upto - 1) + (IF code[upto] = "\n" THEN 1 ELSE 0)

\* Number of code units between the last newline before pos (or the start
\* of the source) and pos.
RECURSIVE ColumnOf(_, _)
ColumnOf(code, pos) ==
    IF pos = 0 \/ code[pos] = "\n" THEN 0
    ELSE ColumnOf(code, pos - 1) + 1

\* C2: every token's lexeme is the slice of the source from the token's
\* start to the cursor at extraction, its line is the number of newlines
\* before the start and its column the distance from the last newline.
C2_TokenPosition ==
    (call.kind # "none" /\ call.res.has_value) =>
        LET tok == call.res.value
            code == lex_state.code
            start == RuleStart.index
        IN  /\ tok.lexeme.ptr = start
            /\ tok.lexeme.text = SubSeq(code, start + 1, lex_state.index)
            /\ lex_state.index > start
            /\ tok.line = CountNewlines(code, start)
            /\ tok.column = ColumnOf(code, start)

\* C2 witness: a token that starts on a later line of the source, not at
\* the beginning of that line.
C2_Witness_AfterMultiline ==
    /\ call.kind = "lexer"
    /\ call.res.has_value
    /\ call.res.value.line >= 1
    /\ call.res.value.column >= 1
    /\ call.res.value.type \in {"dc_terminator", "identifier"}

\* C6: through the full lexer a source starting with 0 goes to the binary
\* rule iff b follows, to the hexadecimal rule iff x follows, to the octal
\* rule iff a digit 0..7 follows and to the decimal rule otherwise; so 0x is
\* invalid_hexadecimal and 0 before a space is lv_signed with lexeme 0.
C6_ZeroPrefixDispatch ==
    LET src == remaining_source(RuleStart)
        nxt == view_at(src, 1)
        expected == CASE nxt = "b" -> "binary"
                      [] nxt = "x" -> "hexadecimal"
                      [] nxt \in {"0", "1", "2", "3", "4", "5", "6", "7"}
                           -> "octal"
                      [] OTHER -> "decimal"
    IN  (call.kind = "lexer" /\ starts_with(src, <<"0">>)) =>
            /\ RuleOfCall = expected
            /\ src = <<"0", "x">> =>
                  call.res.error = "invalid_hexadecimal"
            /\ starts_with(src, <<"0", " ">>) =>
                  /\ call.res.has_value
                  /\ call.res.value.type = "lv_signed"
                  /\ call.res.value.lexeme.text = <<"0">>

BinaryDigits == {"0", "1"}

OctalDigits == {"0", "1", "2", "3", "4", "5", "6", "7"}

HexDigits ==
    {"0", "1", "2", "3", "4", "5", "6", "7", "8", "9",
     "a", "b", "c", "d", "e", "f", "A", "B", "C", "D", "E", "F"}

\* Length of the longest run of characters of digits in code from index pos.
RECURSIVE DigitRun(_, _, _)
DigitRun(code, pos, digits) ==
    IF pos < Len(code) /\ code[pos + 1] \in digits
    THEN 1 + DigitRun(code, pos + 1, digits)
    ELSE 0

\* C7: a token of the binary, octal or hexadecimal rule is the radix prefix
\* followed by the maximal run of digits of the radix, and the cursor is
\* left on the first character that is not such a digit.
C7_RadixLexeme ==
    LET rule == RuleOfCall
        code == lex_state.code
        start == RuleStart.index
        prefix == IF rule = "octal" THEN 1 ELSE 2
        digits == CASE rule = "binary" -> BinaryDigits
                    [] rule = "octal" -> OctalDigits
                    [] OTHER -> HexDigits
        run == DigitRun(code, start + prefix, digits)
    IN  (rule \in {"binary", "octal", "hexadecimal"} /\ call.res.has_value) =>
            /\ run >= 1
            /\ lex_state.index = start + prefix + run
            /\ call.res.value.lexeme.text =
                   SubSeq(code, start + 1, start + prefix + run)

(***************************************************************************)
(* Properties of the operator, keyword and decimal rules                   *)
(***************************************************************************)

\* The operator table: the single characters, the doubled characters, the
\* tripled period, and those that take a trailing equals sign.
OperatorTable ==
    {<<ch>> : ch \in k_known_ops}
        \cup {<<"+", "+">>, <<"-", "-">>, <<"&", "&">>, <<"|", "|">>,
              <<"<", "<">>, <<">", ">">>, <<".", ".">>, <<".", ".", ".">>}
        \cup {<<"+", "=">>, <<"-", "=">>, <<"*", "=">>, <<"/", "=">>,
              <<"%", "=">>, <<"=", "=">>, <<"~", "=">>, <<"^", "=">>,
              <<"!", "=">>, <<"&", "=">>, <<"|", "=">>, <<"<", "=">>,
              <<">", "=">>, <<"&", "&", "=">>, <<"|", "|", "=">>,
              <<"<", "<", "=">>, <<">", ">", "=">>}

\* Length of the longest entry of the operator table that code holds from
\* position start (counted from zero) on; 0 when it holds none.
LongestOperator(code, start) ==
    LET fits == {k \in 1..3 :
                    /\ start + k <= Len(code)
                    /\ SubSeq(code, start + 1, start + k) \in OperatorTable}
    IN  IF fits = {} THEN 0 ELSE CHOOSE k \in fits : \A j \in fits : j <= k

\* The operator rule behaves as the table says on every source that does
\* not begin with a period followed by an equals sign.
LongestOperatorElsewhere ==
    LET code == lex_state.code
        start == RuleStart.index
        len == LongestOperator(code, start)
    IN  (RuleOfCall = "operator"
           /\ ~(/\ start + 2 <= Len(code)
                /\ code[start + 1] = "." /\ code[start + 2] = "=")) =>
            /\ call.res.has_value
            /\ len >= 1
            /\ call.res.value.lexeme.text =
                   SubSeq(code, start + 1, start + len)
            /\ lex_state.index = start + len

\* C31: on a source that begins with an operator or delimiter character the
\* operator rule never fails; the lexeme of its token is the longest prefix
\* of the source that is an entry of the operator table, and the rule
\* consumes exactly that prefix.
C31_LongestOperator ==
    LET code == lex_state.code
        start == RuleStart.index
        len == LongestOperator(code, start)
    IN  RuleOfCall = "operator" =>
            /\ call.res.has_value
            /\ len >= 1
            /\ call.res.value.lexeme.text =
                   SubSeq(code, start + 1, start + len)
            /\ lex_state.index = start + len

\* The operator rule has consumed a tripled operator with its equals sign.
LongOperatorRead ==
    /\ RuleOfCall = "operator"
    /\ call.res.has_value
    /\ call.res.value.lexeme.text = <<"<", "<", "=">>

\* The characters of code that a word is made of: letters, digits and the
\* underscore.
WordChars(code) ==
    {code[i] : i \in DOMAIN code} \cap
        ({"_"} \cup {ch \in DOMAIN Ord :
                        \/ (Ord[ch] >= 48 /\ Ord[ch] <= 57)
                        \/ (Ord[ch] >= 65 /\ Ord[ch] <= 90)
                        \/ (Ord[ch] >= 97 /\ Ord[ch] <= 122)})

\* C35: the keyword rule never fails and consumes the maximal run of
\* letters, digits and underscores.  The token has the kind the keyword
\* table gives its whole lexeme and is an identifier when the table has no
\* such entry: int32 and using are keywords, int32x and using_ identifiers.
C35_KeywordOrIdentifier ==
    LET code == lex_state.code
        start == RuleStart.index
        run == DigitRun(code, start, WordChars(code))
        lexeme == call.res.value.lexeme.text
        type == call.res.value.type
    IN  RuleOfCall = "keyword" =>
            /\ call.res.has_value
            /\ run >= 1
            /\ lexeme = SubSeq(code, start + 1, start + run)
            /\ lex_state.index = start + run
            /\ (type # "identifier") <=>
                   (lexeme \in DOMAIN k_keyword_mapped_types)
            /\ (lexeme \in DOMAIN k_keyword_mapped_types) =>
                   type = k_keyword_mapped_types[lexeme]
            /\ lexeme = <<"i", "n", "t", "3", "2">> => type = "kw_int32"
            /\ lexeme = <<"u", "s", "i", "n", "g">> => type = "kw_using"
            /\ lexeme \in {<<"i", "n", "t", "3", "2", "x">>,
                           <<"u", "s", "i", "n", "g", "_">>} =>
                   type = "identifier"

\* A word that starts with a keyword has been read as an identifier.
C35_Witness_KeywordPrefix ==
    /\ RuleOfCall = "keyword"
    /\ call.res.has_value
    /\ call.res.value.lexeme.text = <<"i", "n", "t", "3", "2", "x">>
    /\ call.res.value.type = "identifier"

DecimalDigits == {"0", "1", "2", "3", "4", "5", "6", "7", "8", "9"}

\* C36: the decimal rule consumes the maximal run of digits.  When the run
\* is followed by a period and a digit, the token is lv_decimal and runs
\* through the period and the digits after it; otherwise it is lv_signed
\* and a period that follows is left unread.  A second group of period and
\* digits, as in 1.2.3, is no part of the token.
C36_DecimalOrSigned ==
    LET code == lex_state.code
        start == RuleStart.index
        run == DigitRun(code, start, DecimalDigits)
        point == start + run < Len(code) /\ code[start + run + 1] = "."
        frac == IF point THEN DigitRun(code, start + run + 1, DecimalDigits)
                ELSE 0
        last == IF frac >= 1 THEN start + run + 1 + frac ELSE start + run
    IN  RuleOfCall = "decimal" =>
            /\ call.res.has_value
            /\ run >= 1
            /\ call.res.value.type =
                   IF frac >= 1 THEN "lv_decimal" ELSE "lv_signed"
            /\ call.res.value.lexeme.text = SubSeq(code, start + 1, last)
            /\ lex_state.index = last

\* Of 1.2.3 the decimal rule has read 1.2.
C36_Witness_SecondGroupLeft ==
    /\ RuleOfCall = "decimal"
    /\ lex_state.code = <<"1", ".", "2", ".", "3">>
    /\ call.res.value.lexeme.text = <<"1", ".", "2">>
    /\ call.res.value.type = "lv_decimal"

(***************************************************************************)
(* Properties of the string and character rules                            *)
(***************************************************************************)

Quotes == <<"\"", "\"", "\"">>

\* The characters of code other than the double quote.
BodyChars(code) == {code[i] : i \in DOMAIN code} \ {"\""}

\* code[from + 1 .. from + len] holds a { that no backslash precedes.
Interpolated(code, from, len) ==
    \E i \in (from + 1)..(from + len) :
        code[i] = "{" /\ (i = 1 \/ code[i - 1] # "\\")

\* C15: through the full lexer a source that starts with r""" is one raw
\* string token.  When the body holds no quote and three quotes close it,
\* the string rule produces the token, its lexeme runs from the r through
\* the closing quotes, and it is lv_int_string when the body interpolates
\* and lv_raw_string otherwise.
C15_RawStringThroughLexer ==
    LET code == call.before.code
        start == RuleStart.index
        body == DigitRun(code, start + 4, BodyChars(code))
        stop == start + 4 + body + 3
    IN  (/\ call.kind = "lexer"
         /\ starts_with(remaining_source(RuleStart), <<"r">> \o Quotes)
         /\ DigitRun(code, start + 4 + body, {"\""}) = 3) =>
            /\ RuleOfCall = "string"
            /\ call.res.has_value
            /\ call.res.value.lexeme.text = SubSeq(code, start + 1, stop)
            /\ call.res.value.type =
                   IF Interpolated(code, start + 4, body)
                   THEN "lv_int_string" ELSE "lv_raw_string"

\* C16: the string rule applied to """ body """, the body without a quote,
\* returns one token over the whole span, lv_mli_string when the body
\* interpolates and lv_ml_string otherwise; when fewer than three quotes
\* follow the body (none at the end of the input) it is invalid_ml_string.
C16_MultilineString ==
    LET code == call.before.code
        start == RuleStart.index
        body == DigitRun(code, start + 3, BodyChars(code))
        closing == DigitRun(code, start + 3 + body, {"\""})
        stop == start + 3 + body + 3
    IN  (/\ call.kind = "rule"
         /\ call.rule = "string"
         /\ starts_with(remaining_source(RuleStart), Quotes)) =>
            /\ closing = 3 =>
                  /\ call.res.has_value
                  /\ call.res.value.lexeme.text =
                         SubSeq(code, start + 1, stop)
                  /\ call.res.value.type =
                         IF Interpolated(code, start + 3, body)
                         THEN "lv_mli_string" ELSE "lv_ml_string"
            /\ closing < 3 =>
                  /\ ~call.res.has_value
                  /\ call.res.error = "invalid_ml_string"

\* C17: a character literal with the escape \u is lv_character exactly when
\* one to four hexadecimal digits and then the closing quote follow the u;
\* in every other case the rule returns invalid_unicode.
C17_UnicodeEscape ==
    LET code == call.before.code
        start == RuleStart.index
        run == DigitRun(code, start + 3, HexDigits)
        stop == start + 3 + run + 1
        valid == run \in 1..4 /\ stop <= Len(code) /\ code[stop] = "'"
    IN  (/\ RuleOfCall = "character"
         /\ starts_with(remaining_source(RuleStart), <<"'", "\\", "u">>)) =>
            IF valid
            THEN /\ call.res.has_value
                 /\ call.res.value.type = "lv_character"
                 /\ call.res.value.lexeme.text = SubSeq(code, start + 1, stop)
            ELSE /\ ~call.res.has_value
                 /\ call.res.error = "invalid_unicode"

\* C18: the binary rule returns an lv_signed token whenever at least one
\* binary digit follows 0b, a single digit included, and it returns
\* invalid_binary only when no binary digit follows 0b.
C18_BinaryNeedsOneDigit ==
    LET run == DigitRun(call.before.code, RuleStart.index + 2, BinaryDigits)
    IN  RuleOfCall = "binary" =>
            /\ run >= 1 =>
                  /\ call.res.has_value
                  /\ call.res.value.type = "lv_signed"
            /\ (~call.res.has_value /\ call.res.error = "invalid_binary") =>
                  run = 0

\* C19: the token stream ends with eos.  A request made to the lexer when
\* nothing but whitespace is left of the source yields a token of kind eos.
C19_StreamEndsWithEos ==
    (call.kind = "lexer" /\ end_of_source(skip_whitespace(call.before))) =>
        /\ call.res.has_value
        /\ call.res.value.type = "eos"

\* The first position of code at or after from (counted from one) that
\* holds a double quote or a newline; 0 when there is none.
FirstStop(code, from) ==
    LET stops == {p \in from..Len(code) : code[p] \in {"\"", "\n"}}
    IN  IF stops = {} THEN 0 ELSE CHOOSE p \in stops : \A q \in stops : p <= q

\* C32: a literal string opened by a single double quote is consumed up to
\* the next double quote.  A newline or the end of the source met first
\* yields invalid_raw_string; otherwise the token runs from the opening
\* through the closing quote and is lv_int_string exactly when the body
\* holds a { whose preceding character is no backslash, else lv_raw_string.
C32_LiteralString ==
    LET code == lex_state.code
        open == RuleStart.index + 1
        stop == FirstStop(code, open + 1)
    IN  (/\ RuleOfCall = "string"
         /\ code[open] = "\""
         /\ ~(/\ open + 2 <= Len(code)
              /\ code[open + 1] = "\"" /\ code[open + 2] = "\"")) =>
            IF stop = 0 \/ code[stop] = "\n"
            THEN /\ ~call.res.has_value
                 /\ call.res.error = "invalid_raw_string"
            ELSE /\ call.res.has_value
                 /\ call.res.value.lexeme.text = SubSeq(code, open, stop)
                 /\ lex_state.index = stop
                 /\ call.res.value.type =
                        IF Interpolated(code, open, stop - 1 - open)
                        THEN "lv_int_string" ELSE "lv_raw_string"

\* A literal string whose body holds an escaped brace has been read.
C32_Witness_EscapedBrace ==
    /\ RuleOfCall = "string"
    /\ call.res.has_value
    /\ call.res.value.lexeme.text = <<"\"", "a", "\\", "{", "\"">>
    /\ call.res.value.type = "lv_raw_string"

\* The positions of the source read by indexing a view or by
\* next_src_char() / prev_src_char() during the last call: by the litmus of
\* every rule probed and by the tokenize of the rule that ran.
PositionsRead ==
    LET s0 == RuleStart
    IN  UNION {litmus_reads(lexer[call.probed[i]], s0) :
                  i \in 1..Len(call.probed)}
        \cup (IF call.kind = "rule" THEN litmus_reads(call.rule, s0) ELSE {})
        \cup (IF RuleOfCall # "none" THEN tokenize_peeks(RuleOfCall, s0)
              ELSE {})

\* C37: neither the dispatcher nor a rule reads the source outside
\* [0, len(code)]: next_src_char() is not evaluated at index = len(code)
\* and prev_src_char() is not evaluated at index = 0.
C37_ReadsInsideSource ==
    call.kind \in {"lexer", "rule"} =>
        \A p \in PositionsRead : p >= 0 /\ p <= Len(RuleStart.code)

\* The binary rule ran on a source that ends behind "0b": the
\* end_of_source() test kept next_src_char() from being evaluated.
C37_Witness_BinaryAtEnd ==
    /\ RuleOfCall = "binary"
    /\ end_of_source(read_src_char(read_src_char(start_token(RuleStart))))
    /\ ~call.res.has_value
    /\ call.res.error = "invalid_binary"

\* A rule read the terminating zero with next_src_char(): the last position
\* inside the source.
C37_Witness_PeekAtTerminator ==
    /\ RuleOfCall \in {"binary", "decimal"}
    /\ Len(RuleStart.code) \in tokenize_peeks(RuleOfCall, RuleStart)

(***************************************************************************)
(* Properties of the parsers                                               *)
(***************************************************************************)

\* C3: parsing never blocks.  Every loop iteration of a parser that returns
\* on the first error or at the end of the source moves past at least one
\* token, so a parse begins at most as many iterations as the source has
\* characters.
C3_ParsingNeverBlocks ==
    iters <= Len(ctx.lex_state.code)

\* Number of elements of seq equal to x.
RECURSIVE Count(_, _)
Count(seq, x) ==
    IF seq = <<>> THEN 0
    ELSE (IF Head(seq) = x THEN 1 ELSE 0) + Count(Tail(seq), x)

\* C4: when the called parser returns success, current is the first token
\* after the construct: every generic argument list the parser moved into
\* has been closed, and a<b>.c is a path expression of two segments.
C4_CurrentAfterConstruct ==
    (Returned /\ ret.has_value) =>
        /\ Count(ctx.consumed, "op_logless")
               = Count(ctx.consumed, "op_logmore")
        /\ (entry = "path_expr"
              /\ ctx.lex_state.code = <<"a", "<", "b", ">", ".", "c">>) =>
                 Len(ret.value.segments) = 2

\* C5: the type parser turns int32**&&*& into a reference type over the
\* single segment int32 with one depth entry per sigil character.
C5_RefDepthPerSigil ==
    (Returned /\ entry = "type"
       /\ ctx.lex_state.code =
              <<"i", "n", "t", "3", "2", "*", "*", "&", "&", "*", "&">>) =>
        /\ ret.has_value
        /\ ret.value.variant = "ref"
        /\ ret.value.segments = <<PrimitiveSegment("p_int32")>>
        /\ ret.value.depth = <<TRUE, TRUE, FALSE, FALSE, TRUE, FALSE>>

\* C11: a parser that receives from a child parser an error other than
\* not_my_syntax returns that same error to its own caller, and so the import
\* parser applied to "using a.;" returns expected_identifier.
C11_ChildErrorPropagates ==
    /\ [][(/\ status = "running"
           /\ ~ret.has_value
           /\ ret.error \notin {"success", "not_my_syntax"}
           /\ Len(stack') < Len(stack))
              => ret'.error = ret.error]_vars
    /\ [](Returned /\ entry = "import"
            /\ ctx.lex_state.code =
                   <<"u", "s", "i", "n", "g", " ", "a", ".", ";">>
              => ret.error = "expected_identifier")

\* C13: an array type is parsed and nothing faults.  No parse ends in a
\* fault, and the type parser applied to a[] moves past both brackets and
\* returns an array type that carries the segment a.
C13_ArrayTypeParsed ==
    /\ status # "faulted"
    /\ (Returned /\ entry = "type"
          /\ ctx.lex_state.code = <<"a", "[", "]">>) =>
            /\ ret.has_value
            /\ ret.value.variant = "arr"
            /\ ret.value.segments = <<GenericSegment(<<"a">>)>>
            /\ Count(ctx.consumed, "dc_lbracket") = 1
            /\ Count(ctx.consumed, "dc_rbracket") = 1

\* C14: empty generic brackets are accepted.  The segment parser applied
\* to a<> returns the generic segment named a with an empty list of inputs.
C14_EmptyGenericsAccepted ==
    (Returned /\ entry = "segment"
       /\ ctx.lex_state.code = <<"a", "<", ">">>) =>
        ret = SynOk(GenericSegment(<<"a">>))

\* The tokens the lexer yields for a source, up to its first failure.
RECURSIVE TokensFrom(_, _)
TokensFrom(s, n) ==
    IF n = 0 THEN <<>>
    ELSE LET r == lexical_analyzer_tokenize(lexer, s, FALSE)
         IN  IF r.aborted \/ ~r.res.has_value THEN <<>>
             ELSE <<r.res.value>> \o TokensFrom(r.res.st, n - 1)

Tokens(code) == TokensFrom(NewLexState(code), Len(code))

\* IDENT ('.' IDENT)* read off a token sequence from position i on, segs
\* being the identifiers already matched.
RECURSIVE MoreSegments(_, _, _)
MoreSegments(tokens, i, segs) ==
    IF i > Len(tokens) \/ tokens[i].type # "op_access"
    THEN SynOk([segments |-> segs])
    ELSE IF i + 1 > Len(tokens) \/ tokens[i + 1].type # "identifier"
    THEN SynErr("expected_identifier")
    ELSE MoreSegments(tokens, i + 2,
                      Append(segs, tokens[i + 1].lexeme.text))

SimplePathOf(tokens) ==
    IF tokens = <<>> \/ tokens[1].type # "identifier"
    THEN SynErr("not_my_syntax")
    ELSE MoreSegments(tokens, 2, <<tokens[1].lexeme.text>>)

\* C24: the simple path parser accepts exactly IDENT ('.' IDENT)*.  Its
\* result is the one the grammar gives for the tokens of the source: on
\* success the identifier lexemes in source order, at least one, none empty
\* and none an access operator; expected_identifier when an access operator
\* is followed by something that is not an identifier.
C24_SimplePathGrammar ==
    (Returned /\ entry = "simple_path") =>
        /\ ret = SimplePathOf(Tokens(ctx.lex_state.code))
        /\ ret.has_value =>
              /\ Len(ret.value.segments) >= 1
              /\ \A i \in 1..Len(ret.value.segments) :
                    ret.value.segments[i] \notin {<<>>, <<".">>}

\* A path of three segments has been returned.
C24_Witness_ThreeSegments ==
    /\ Returned /\ entry = "simple_path"
    /\ ret = SynOk([segments |-> <<<<"a">>, <<"b">>, <<"c">>>>])

\* C25: the import parser accepts `using SimplePath ;`.  When the tokens of
\* the source are `using` followed by a simple path of k segments, the
\* parser returns the import over that path if the token after the path is
\* the terminator, and expected_terminator otherwise.
C25_ImportStatement ==
    LET tokens == Tokens(ctx.lex_state.code)
        path == SimplePathOf(Tail(tokens))
        after == 2 * Len(path.value.segments) + 1
    IN  (/\ Returned /\ entry = "import"
         /\ tokens # <<>> /\ tokens[1].type = "kw_using"
         /\ path.has_value) =>
            IF after <= Len(tokens) /\ tokens[after].type = "dc_terminator"
            THEN ret = SynOk([path |-> path.value])
            ELSE ret = SynErr("expected_terminator")

\* The import of a.b has been returned.
C25_Witness_ImportReturned ==
    /\ Returned /\ entry = "import"
    /\ ret = SynOk([path |-> [segments |-> <<<<"a">>, <<"b">>>>]])

\* The type written as one identifier.
RawOf(token) ==
    [TypeNode("raw") EXCEPT
        !.segments = <<GenericSegment(token.lexeme.text)>>]

\* T1, ..., Tn ) read off a token sequence from position i on, each Ti an
\* identifier: the inputs and the position after the closing parenthesis,
\* or no match.
RECURSIVE FlatInputs(_, _, _)
FlatInputs(tokens, i, acc) ==
    IF i > Len(tokens) THEN [flat |-> FALSE, inputs |-> acc, next |-> i]
    ELSE IF tokens[i].type = "dc_rparen" /\ acc = <<>>
    THEN [flat |-> TRUE, inputs |-> acc, next |-> i + 1]
    ELSE IF tokens[i].type # "identifier" \/ i + 1 > Len(tokens)
    THEN [flat |-> FALSE, inputs |-> acc, next |-> i]
    ELSE IF tokens[i + 1].type = "dc_rparen"
    THEN [flat |-> TRUE, inputs |-> Append(acc, RawOf(tokens[i])),
          next |-> i + 2]
    ELSE IF tokens[i + 1].type = "dc_comma"
    THEN FlatInputs(tokens, i + 2, Append(acc, RawOf(tokens[i])))
    ELSE [flat |-> FALSE, inputs |-> acc, next |-> i]

\* Path ( T1, ..., Tn ) optionally followed by : R, the path a simple path
\* and each Ti and R an identifier: whether the tokens are written so, and
\* the function type they denote.
FlatFn(tokens) ==
    LET path == SimplePathOf(tokens)
        open == 2 * Len(path.value.segments)
        ins == FlatInputs(tokens, open + 1, <<>>)
        names == path.value.segments
        segments == [k \in 1..Len(names) |-> GenericSegment(names[k])]
        node == [TypeNode("fn") EXCEPT !.segments = segments,
                                       !.inputs = ins.inputs]
    IN  IF ~path.has_value \/ open > Len(tokens) THEN [flat |-> FALSE]
        ELSE IF tokens[open].type # "dc_lparen" \/ ~ins.flat
        THEN [flat |-> FALSE]
        ELSE IF ins.next > Len(tokens)
        THEN [flat |-> TRUE, node |-> node]
        ELSE IF /\ ins.next + 1 = Len(tokens)
                /\ tokens[ins.next].type = "dc_colon"
                /\ tokens[ins.next + 1].type = "identifier"
        THEN [flat |-> TRUE,
              node |-> [node EXCEPT
                           !.output = <<RawOf(tokens[ins.next + 1])>>]]
        ELSE [flat |-> FALSE]

\* The type parser, applied to a function type whose inputs and output are
\* identifiers, returns the function type with the inputs in source order
\* and the output present exactly when the source has one.
FlatFnParsed ==
    LET fn == FlatFn(Tokens(ctx.lex_state.code))
    IN  (Returned /\ entry = "type" /\ fn.flat) => ret = SynOk(fn.node)

\* C26: for a function type Path ( T1, ..., Tn ) optionally followed by
\* : R the type parser returns the function type over T1..Tn in source
\* order, with an output exactly when the source has : R.  This holds where
\* the Ti and R are identifiers, and for a(b<c>), whose one input is the
\* type b<c>.
C26_FunctionTypeParsed ==
    /\ FlatFnParsed
    /\ (Returned /\ entry = "type"
          /\ ctx.lex_state.code =
                 <<"a", "(", "b", "<", "c", ">", ")">>) =>
            /\ ret.has_value
            /\ ret.value.variant = "fn"
            /\ Len(ret.value.inputs) = 1
            /\ ret.value.output = <<>>

\* A function type of two inputs and an output has been returned.
FlatFnReturned ==
    /\ Returned /\ entry = "type"
    /\ ret.has_value /\ ret.value.variant = "fn"
    /\ Len(ret.value.inputs) = 2 /\ ret.value.output # <<>>

Sigils == {"op_mul", "op_bitand"}

\* Number of elements of seq that belong to set.
RECURSIVE CountIn(_, _)
CountIn(seq, set) ==
    IF seq = <<>> THEN 0
    ELSE (IF Head(seq) \in set THEN 1 ELSE 0) + CountIn(Tail(seq), set)

\* A reference type handed back by the type parser has one depth entry per
\* sigil token moved past last, true for * and false for &, at least one,
\* and the current token is the first that is no sigil.
RefDepthFollowsSigils ==
    (Returned /\ entry = "type" /\ ret.has_value
       /\ ret.value.variant = "ref") =>
        LET depth == ret.value.depth
            k == Len(depth)
            n == Len(ctx.consumed)
        IN  /\ k >= 1 /\ k < n
            /\ \A i \in 1..k :
                  /\ ctx.consumed[n - k + i] \in Sigils
                  /\ depth[i] = (ctx.consumed[n - k + i] = "op_mul")
            /\ ctx.consumed[n - k] \notin Sigils
            /\ ctx.current.type \notin Sigils

\* The type parser never holds more depth entries than the source has
\* sigil tokens.
DepthWithinSigils ==
    \A i \in 1..Len(stack) :
        (stack[i].fn = "type" /\ stack[i].pc = "while") =>
            Len(stack[i].node.depth)
                <= CountIn([j \in 1..Len(Tokens(ctx.lex_state.code)) |->
                               Tokens(ctx.lex_state.code)[j].type],
                           Sigils)

\* C27: a path followed by k >= 1 sigil tokens is returned as a reference
\* type whose depth has exactly k entries, entry i true iff sigil i is *;
\* the parser stops at the first token that is no sigil, and every
\* reference type has a non-empty depth.
C27_RefDepthExact ==
    /\ RefDepthFollowsSigils
    /\ DepthWithinSigils

\* A reference type of depth three has been returned.
RefOfThreeReturned ==
    /\ Returned /\ entry = "type" /\ ret.has_value
    /\ ret.value.variant = "ref"
    /\ ret.value.depth = <<TRUE, FALSE, TRUE>>

\* The token kinds a parser starts on.
StartSet(parser) ==
    IF parser = "import" THEN {"kw_using"}
    ELSE IF parser = "simple_path" THEN {"identifier"}
    ELSE {"identifier", "kw_bool", "kw_char", "kw_int8", "kw_int16",
          "kw_int32", "kw_int64", "kw_uint8", "kw_uint16", "kw_uint32",
          "kw_uint64", "kw_single", "kw_double", "kw_string", "kw_void"}

\* The parse state the host hands to the parser: the first token read.
Handed == next_token(NewSynState(ctx.lex_state.code), checked)

\* C28: a parser whose start set does not hold the current token returns
\* not_my_syntax and leaves the parse state as it was handed over: no token
\* is consumed and no field has changed, so another parser can be tried on
\* the same token.  A parser that answers not_my_syntax has changed nothing
\* either.
C28_NotMySyntaxChangesNothing ==
    Returned =>
        /\ Handed.current.type \notin StartSet(entry) =>
              ret = SynErr("not_my_syntax")
        /\ (~ret.has_value /\ ret.error = "not_my_syntax") =>
              /\ ctx = Handed
              /\ ctx.consumed = <<>>

\* The type parser has declined a sigil.
C28_Witness_TypeDeclined ==
    /\ Returned /\ entry = "type"
    /\ ret = SynErr("not_my_syntax")
    /\ ctx.current.type = "op_mul"

\* C29: next_token pulls one token from the lexer and returns the kind of
\* the lexer's result.  When the lexer yields a token, current becomes that
\* token and success is returned; when it yields an error, that error is
\* returned and current is left as it was.
C29_NextTokenStoresOnSuccess ==
    [][(advancing /\ ~ctx'.aborted) =>
          LET r == lexical_analyzer_tokenize(lexer, ctx.lex_state,
                                             checked).res
          IN  /\ ctx'.lex_state = r.st
              /\ r.has_value =>
                    /\ ctx'.current = r.value
                    /\ ctx'.last_errc = "success"
              /\ ~r.has_value =>
                    /\ ctx'.current = ctx.current
                    /\ ctx'.last_errc = r.error
                    /\ r.error # "success"]_vars

\* A read has failed and the identifier read before is still current.
C29_Witness_ErrorKeptCurrent ==
    /\ ctx.last_errc = "not_my_token"
    /\ ctx.current.type = "identifier"
    /\ ~advancing

\* C34: printing a type and then lexing and parsing the text yields a type
\* equal to the one printed, for raw, function, array and reference types.
C34_PrintParseIdentity ==
    \A t \in RoundTripTypes, adr \in PointerSupplies :
        (Returned /\ entry = "type"
           /\ ctx.lex_state.code = type_print(t, adr, 0).text) =>
            /\ ret.has_value
            /\ type_equal(t, ret.value) = Completed(TRUE)

(***************************************************************************)
(* Properties of lex::state                                                *)
(***************************************************************************)

\* C30: after any sequence of read_src_char, start_token and extract_token
\* calls, index is at most the length of the source and the lexeme start at
\* most index; line is the number of newlines read and column the number of
\* code units read since the last newline, carriage return and form feed
\* counting as columns; read_src_char at the end of the source returns the
\* zero byte and changes no field.
C30_StatePositions ==
    LET s == lex_state
    IN  /\ s.index <= Len(s.code)
        /\ s.lexeme_start <= s.index
        /\ s.line = CountNewlines(s.code, s.index)
        /\ s.column = ColumnOf(s.code, s.index)
        /\ (call.kind = "read_src_char"
              /\ call.before.index = Len(call.before.code)) =>
                 /\ call.char = NUL
                 /\ s = call.before

\* A read at the end of a source that holds a newline followed by a
\* carriage return, the token having been started after the newline.
C30_Witness_ReadAtEnd ==
    /\ call.kind = "read_src_char"
    /\ call.before.index = Len(call.before.code)
    /\ lex_state.code = <<"a", "\n", "\r">>
    /\ lex_state.lexeme_start = 2
    /\ lex_state.line = 1 /\ lex_state.column = 1

(***************************************************************************)
(* Properties of the abstract syntax                                       *)
(***************************************************************************)

\* C12: every node equals itself.  The comparison of a node with itself
\* completes and evaluates to true, for every variant of a type: raw,
\* function with and without an output, array and reference.
C12_EqualityReflexive ==
    (equal.made /\ lhs = rhs) => equal = Completed(TRUE)

(***************************************************************************)
(* Properties of the visitors                                              *)
(***************************************************************************)

\* C33: a document handed a visitor that can visit imports and modules has
\* every import visited in sequence order and then every module in
\* sequence order; a module handed a visitor of its six kinds of item has
\* its aliases, enumerations, extensions, functions, objects and variables
\* visited in that order, each group in declaration order and each child
\* exactly once.
C33_TraversalOrder ==
    /\ (visited.made /\ visitee.kind = "document"
          /\ visitor = DocumentKinds) =>
            /\ visited.built
            /\ visited.order =
                   [i \in 1..Len(visitee.imports) |->
                       [kind |-> "import", at |-> i]]
                     \o [i \in 1..Len(visitee.modules) |->
                            [kind |-> "module", at |-> i]]
    /\ (visited.made /\ visitee.kind = "module"
          /\ visitor = ModuleKinds) =>
            /\ visited.built
            /\ Len(visited.order) =
                   Len(visitee.aliases) + Len(visitee.enumerations)
                     + Len(visitee.extensions) + Len(visitee.functions)
                     + Len(visitee.objects) + Len(visitee.variables)
            /\ \A i, j \in 1..Len(visited.order) :
                  i < j =>
                     LET rank == "alias" :> 1 @@ "enumeration" :> 2
                                   @@ "extension" :> 3 @@ "function" :> 4
                                   @@ "object" :> 5 @@ "variable" :> 6
                         a == visited.order[i]
                         b == visited.order[j]
                     IN  \/ rank[a.kind] < rank[b.kind]
                         \/ a.kind = b.kind /\ a.at < b.at

\* No call of accept is ever built: whatever the visitor offers, the
\* constraint of the template rejects it.
NoAcceptBuilt == ~visited.built

(***************************************************************************)
(* Properties of the grammar engine                                        *)
(***************************************************************************)

\* The set a map holds for a key, empty when the key is missing.
Lookup(sets, key) == IF key \in DOMAIN sets THEN sets[key] ELSE {}

\* FIRST of a sequence of symbols under the FIRST sets F: the leaves that
\* can begin it, and epsilon when all of it can derive the empty string.
RECURSIVE SequenceFirst(_, _)
SequenceFirst(sequence, F) ==
    IF sequence = <<>> THEN {k_epsilon}
    ELSE LET x == Head(sequence)
         IN  IF x = k_epsilon THEN SequenceFirst(Tail(sequence), F)
             ELSE IF is_leaf(x) THEN {x}
             ELSE (Lookup(F, x) \ {k_epsilon})
                      \cup (IF k_epsilon \in Lookup(F, x)
                            THEN SequenceFirst(Tail(sequence), F)
                            ELSE {})

Heads(productions_) == {productions_[i].head : i \in 1..Len(productions_)}

\* The least solution of the FIRST equations of a production sequence.
RECURSIVE FirstFixpoint(_, _)
FirstFixpoint(productions_, F) ==
    LET G == [N \in Heads(productions_) |->
                 F[N] \cup UNION {SequenceFirst(productions_[i].body, F) :
                                    i \in {j \in 1..Len(productions_) :
                                               productions_[j].head = N}}]
    IN  IF G = F THEN F ELSE FirstFixpoint(productions_, G)

FirstLeast(productions_) ==
    FirstFixpoint(productions_, [N \in Heads(productions_) |-> {}])

\* The nonterminals of a production sequence, with the start symbol.
Nonterminals(productions_) ==
    {start_symbol} \cup Heads(productions_)
        \cup UNION {{x \in Elements(productions_[i].body) : ~is_leaf(x)} :
                       i \in 1..Len(productions_)}

\* What the occurrence of a nonterminal at position j of production p
\* contributes to its FOLLOW set under FIRST sets F and FOLLOW sets W.
FollowOfOccurrence(p, j, F, W) ==
    LET rest == SequenceFirst(SubSeq(p.body, j + 1, Len(p.body)), F)
    IN  (rest \ {k_epsilon})
            \cup (IF k_epsilon \in rest THEN W[p.head] ELSE {})

\* The least solution of the FOLLOW equations of a production sequence.
RECURSIVE FollowFixpoint(_, _, _)
FollowFixpoint(productions_, F, W) ==
    LET G == [N \in Nonterminals(productions_) |->
                 W[N] \cup (IF N = start_symbol THEN {k_final} ELSE {})
                      \cup UNION {FollowOfOccurrence(productions_[i], j, F, W) :
                                    <<i, j>> \in
                                        {o \in (1..Len(productions_))
                                                  \X (1..Len(productions_) + 3) :
                                            /\ o[2] <= Len(productions_[o[1]].body)
                                            /\ productions_[o[1]].body[o[2]] = N}}]
    IN  IF G = W THEN W ELSE FollowFixpoint(productions_, F, G)

FollowLeast(productions_) ==
    FollowFixpoint(productions_, FirstLeast(productions_),
                   [N \in Nonterminals(productions_) |-> {}])

\* The production set of the grammar.
Grammar == merge_all(<<>>, rules)

\* C8: the map first_sets returns is the least fixed point of the FIRST
\* equations of the grammar's productions.
C8_FirstSetsLeastFixedPoint ==
    \A t \in DOMAIN thread :
        thread[t].ret.fn = "first_sets" =>
            thread[t].ret.view = FirstLeast(Grammar)

\* C9: the map follow_sets returns is the least fixed point of the FOLLOW
\* equations of the grammar's productions, seeded with the end marker for
\* the start symbol.
C9_FollowSetsLeastFixedPoint ==
    \A t \in DOMAIN thread :
        thread[t].ret.fn = "follow_sets" =>
            /\ DOMAIN thread[t].ret.view \subseteq Nonterminals(Grammar)
            /\ \A N \in Nonterminals(Grammar) :
                   Lookup(thread[t].ret.view, N) = FollowLeast(Grammar)[N]

\* C10: whatever the threads' calls overlap with, the process keeps
\* running and every call returns the completely computed map: all the
\* productions of the grammar, its FIRST sets, its FOLLOW sets.
C10_CallersSeeCompleteResult ==
    /\ process = "running"
    /\ \A t \in DOMAIN thread :
          LET r == thread[t].ret
          IN  /\ r.fn = "prod_sets" => r.view = Grammar
              /\ r.fn = "first_sets" => r.view = FirstLeast(Grammar)
              /\ r.fn = "follow_sets" =>
                    \A N \in Nonterminals(Grammar) :
                        Lookup(r.view, N) = FollowLeast(Grammar)[N]

\* Some production's body holds a nonterminal smaller than its head: the
\* reverse iteration over the productions visits the head first.
BackwardReference(productions_) ==
    \E i \in 1..Len(productions_) :
        \E j \in 1..Len(productions_[i].body) :
            /\ ~is_leaf(productions_[i].body[j])
            /\ productions_[i].body[j] < productions_[i].head

\* Every nonterminal of a body is the head of some production.
AllDefined(productions_) ==
    \A i \in 1..Len(productions_) :
        \A x \in Elements(productions_[i].body) :
            is_leaf(x) \/ x \in Heads(productions_)

\* C20: the result does not depend on the order in which the productions
\* are visited.  The computation completes for every grammar whose
\* nonterminals are defined, and for a grammar in which a body refers to a
\* nonterminal visited after its head first_sets and follow_sets still
\* return the least fixed points.
C20_OrderIndependent ==
    /\ AllDefined(Grammar) => process # "terminated"
    /\ BackwardReference(Grammar) =>
          \A t \in DOMAIN thread :
              LET r == thread[t].ret
              IN  /\ r.fn = "first_sets" => r.view = FirstLeast(Grammar)
                  /\ r.fn = "follow_sets" =>
                        \A N \in Nonterminals(Grammar) :
                            Lookup(r.view, N) = FollowLeast(Grammar)[N]

\* The symbols of the expression grammar of the tests.
E == start_symbol

EP == start_symbol + 1

T == start_symbol + 2

TP == start_symbol + 3

F == start_symbol + 4

\* C21: for the expression grammar first_sets returns FIRST(E) = FIRST(T)
\* = FIRST(F) = {ident, lparen}, FIRST(EP) = {epsilon, add} and FIRST(TP) =
\* {epsilon, mul}, and no other entry.
C21_ExpressionFirstSets ==
    \A t \in DOMAIN thread :
        (rules = ExpressionGrammar /\ thread[t].ret.fn = "first_sets") =>
            thread[t].ret.view =
                E :> {0, 3} @@ EP :> {k_epsilon, 1} @@ T :> {0, 3}
                  @@ TP :> {k_epsilon, 2} @@ F :> {0, 3}

\* C21 witness: first_sets has returned for the expression grammar.
C21_Witness_FirstSetsReturned ==
    /\ rules = ExpressionGrammar
    /\ \E t \in DOMAIN thread :
          /\ thread[t].ret.fn = "first_sets"
          /\ k_epsilon \in thread[t].ret.view[EP]

\* C22: for the expression grammar with start symbol E follow_sets returns
\* FOLLOW(E) = FOLLOW(EP) = {final, rparen}, FOLLOW(T) = FOLLOW(TP) =
\* {final, add, rparen} and FOLLOW(F) = {final, add, mul, rparen}, and no
\* other entry.
C22_ExpressionFollowSets ==
    \A t \in DOMAIN thread :
        (rules = ExpressionGrammar /\ thread[t].ret.fn = "follow_sets") =>
            thread[t].ret.view =
                E :> {k_final, 4} @@ EP :> {k_final, 4}
                  @@ T :> {k_final, 1, 4} @@ TP :> {k_final, 1, 4}
                  @@ F :> {k_final, 1, 2, 4}

\* C22 witness: follow_sets has returned for the expression grammar.
C22_Witness_FollowSetsReturned ==
    /\ rules = ExpressionGrammar
    /\ \E t \in DOMAIN thread :
          /\ thread[t].ret.fn = "follow_sets"
          /\ 2 \in thread[t].ret.view[F]

\* Every call the hosts make has returned, or the process has ended.
Settled ==
    \/ process # "running"
    \/ \A t \in DOMAIN thread :
           thread[t].program = <<>> /\ thread[t].stack = <<>>

\* One more pass of update_firsts over the productions changes no set.
FirstsStable(productions_, sets) ==
    \A i \in 1..Len(productions_) :
        LET u == update_firsts(productions_[i].head, productions_[i].body,
                               sets)
        IN  ~u.terminated /\ u.results = sets

\* C23: the FIRST and FOLLOW computations terminate for every finite
\* production set, and their loop is left once no set changes: every call
\* eventually returns, and the sets first_sets returns are those a further
\* pass over the productions leaves as they are.
C23_ComputationTerminates ==
    /\ <>Settled
    /\ [](\A t \in DOMAIN thread :
             thread[t].ret.fn = "first_sets" =>
                 FirstsStable(Grammar, thread[t].ret.view))

\* The symbols constructed from the token kinds.
TokenSymbols == {symbol(name) : name \in DOMAIN leaf}

\* C38: the sentinels epsilon and $ are distinct from every symbol
\* constructed from a token kind: no member of a computed FIRST or FOLLOW
\* set that is epsilon or $ is the symbol of a token kind, eos included.
C38_SentinelsAreNoTokenKind ==
    /\ \A head \in DOMAIN first_sets_result :
          first_sets_result[head] \cap {k_epsilon, k_final}
              \cap TokenSymbols = {}
    /\ \A head \in DOMAIN follow_sets_result :
          follow_sets_result[head] \cap {k_epsilon, k_final}
              \cap TokenSymbols = {}

====
